---- MODULE Spec2Model ----
(***************************************************************************)
(* Model of the LCU client (client.go): the subscription registry, the     *)
(* WebSocket send path, the connection lifecycle, the listener goroutine   *)
(* and the handler goroutines it starts.                                   *)
(***************************************************************************)
EXTENDS Naturals, Integers, Sequences, FiniteSets, Bags, TLC

\* ---------------------------------------------------------------- bounds
MaxSubscribes == 2
MaxUnsubscribes == 1
MaxConnects == 2
MaxDisconnects == 2
MaxFrames == 2
MaxCalls == 2
MaxLen == 7

\* ------------------------------------------------------- program constants
OpSubscribe == 5
OpUnsubscribe == 6
OpEvent == 8
MinEventLen == 3

CatchAll == "OnJsonApiEvent"
RootTopic == "/"
RawEventType == "WebSocketMessage"

validEventTypes == {"Create", "Update", "Delete"}

\* ------------------------------------------------------------ input sets
Handlers == {"h1", "h2"}
Topics == {"/a", "/b"}
Keys == Topics \cup {RootTopic, CatchAll}
\* the variadic eventTypes argument of Subscribe, as the slice it is
FilterArgs == {<<>>, <<"Update">>, <<"Update", "Bogus">>}
AllTypes == <<"Create", "Update", "Delete">>
\* the topics subscribed in the API scenarios: an ordinary one and the event bus
ApiTopics == {"/a", CatchAll}
\* the topics unsubscribed in the router scenarios
RouterUnsubscribes == {"/a", RootTopic}

\* A decoded JSON frame ([]interface{}): its length, whether element 0 is a
\* number and its value, whether element 1 is a string and its value, whether
\* element 2 is an object, and that object's eventType / uri / data members.
Frame(n, opNum, op, chanStr, chan, bodyObj, hasType, et, hasUri, uri, data) ==
  [n |-> n, opNum |-> opNum, op |-> op, chanStr |-> chanStr, chan |-> chan,
   bodyObj |-> bodyObj, hasType |-> hasType, eventType |-> et,
   hasUri |-> hasUri, uri |-> uri, data |-> data]

EventFrame(chan, et, uri, data) ==
  Frame(3, TRUE, OpEvent, TRUE, chan, TRUE, TRUE, et, TRUE, uri, data)

NoFrame == Frame(0, FALSE, 0, FALSE, "", FALSE, FALSE, "", FALSE, "", "")

WellFormedFrames ==
  { EventFrame(CatchAll, "Update", "/a", "d1"),
    EventFrame(CatchAll, "Create", "/a", "d2"),
    EventFrame(CatchAll, "Update", RootTopic, "d1"),
    EventFrame(CatchAll, "Update", CatchAll, "d1"),
    EventFrame("/a", "Update", "/b", "d1") }

OtherFrames ==
  { NoFrame,                                                            \* []
    Frame(1, TRUE, 0, FALSE, "", FALSE, FALSE, "", FALSE, "", ""),      \* [0]
    Frame(3, TRUE, 3, TRUE, CatchAll, TRUE, TRUE, "Update", TRUE, "/a", "d1"), \* opcode 3
    Frame(3, FALSE, 0, TRUE, CatchAll, TRUE, TRUE, "Update", TRUE, "/a", "d1"), \* ["8", ...]
    Frame(2, TRUE, OpEvent, TRUE, CatchAll, FALSE, FALSE, "", FALSE, "", ""),   \* [8, ch]
    Frame(3, TRUE, OpEvent, FALSE, "", TRUE, TRUE, "Update", TRUE, "/a", "d1"), \* [8, 1, {..}]
    Frame(3, TRUE, OpEvent, TRUE, CatchAll, FALSE, FALSE, "", FALSE, "", ""),   \* [8, ch, 1]
    Frame(3, TRUE, OpEvent, TRUE, CatchAll, TRUE, FALSE, "", TRUE, "/a", "d1"), \* no eventType
    Frame(3, TRUE, OpEvent, TRUE, CatchAll, TRUE, TRUE, "Update", FALSE, "", "d1") } \* no uri

Frames == WellFormedFrames \cup OtherFrames

\* Event{EventType, URI, Data}. Go's Data (interface{}) holds the payload of a
\* decoded event or the whole message in the listener's raw-message event; the
\* two kinds are kept in two fields, Data and Message.
Event(et, uri, data, msg) == [EventType |-> et, URI |-> uri, Data |-> data, Message |-> msg]
NoEvent == Event("", "", "", NoFrame)

VARIABLES
  handlers,    \* c.handlers: topic key -> sequence of wrapped handlers
  wsConn,      \* c.wsConn: 0 is nil, n > 0 the n-th dialled connection
  done,        \* c.done: TRUE once the channel is closed
  dialled,     \* number of connections dialled so far
  listeners,   \* the listenForEvents goroutines, in start order
  goroutines,  \* bag of started-but-not-yet-run `go handler(event)` calls
  invoked,     \* bag of calls of user handlers: [h, ev]
  blocked,     \* number of user handler calls that never return
  crashed,     \* the process died of an unrecovered panic
  last,        \* the last API call: its arguments, the error it returned and
               \* what it did on the network (the messages written to the
               \* socket; for Connect, its steps)
  nSub, nUnsub, nConn, nDisc, nFrames,
  credentials, \* c.credentials: n > 0 is the result of the n-th resolution
               \* (findCredentials), 0 is none held
  calls,       \* the Subscribe and Unsubscribe calls followed step by step
  eventMux,    \* c.eventMux: 0 is unlocked, t > 0 is locked by calls[t]
  wsLock,      \* c.wsLock: the set of calls holding its read lock
  goos,        \* runtime.GOOS
  config,      \* the Config given to NewClient: LeaguePath, AwaitConnection,
               \* PollInterval (seconds), Debug
  files,       \* the file system: path -> [exists, data]
  resolve,     \* the findCredentials call: where it is, what it consulted so
               \* far and what it returned
  gateway      \* the last Request call: its arguments, what the service
               \* received and what the caller got back

\* the state of the calls followed step by step
concurrent == <<calls, eventMux, wsLock>>

vars == <<handlers, wsConn, done, dialled, listeners, goroutines, invoked,
          blocked, crashed, last, nSub, nUnsub, nConn, nDisc, nFrames,
          credentials, calls, eventMux, wsLock, goos, config, files, resolve,
          gateway>>

\* the state of credential discovery
resolver == <<goos, config, files, resolve>>

Call(op, topic, h, types, err, sent) ==
  [op |-> op, topic |-> topic, h |-> h, types |-> types, err |-> err, sent |-> sent]

Listener(pc, msg, ev, snap, why) ==
  [pc |-> pc, msg |-> msg, ev |-> ev, snap |-> snap, why |-> why]

Range(s) == {s[i] : i \in 1..Len(s)}

RECURSIVE SeqToBag(_)
SeqToBag(s) == IF s = <<>> THEN EmptyBag
               ELSE SetToBag({Head(s)}) (+) SeqToBag(Tail(s))

\* a request body, or none
Body(data) == [nil |-> FALSE, data |-> data]
NoBody == [nil |-> TRUE, data |-> <<>>]

\* a stream read to its end: the bytes it gave and whether it ended in an error
Stream(data, err) == [data |-> data, err |-> err]

\* the arguments of a Request call and what the network does to it
RequestArgs(body, kind, outcome, response, cut) ==
  [body |-> body, kind |-> kind, outcome |-> outcome, response |-> response,
   cut |-> cut]

\* no Request call was made yet
NoRequest ==
  [called |-> FALSE, debug |-> FALSE,
   args |-> RequestArgs(NoBody, "io.Reader", "nil", <<>>, 0),
   out |-> [err |-> "", sent |-> FALSE, received |-> <<>>,
            read |-> Stream(<<>>, FALSE)]]

InitClient ==
  /\ handlers = [k \in Keys |-> <<>>]
  /\ wsConn = 0
  /\ done = FALSE
  /\ dialled = 0
  /\ listeners = <<>>
  /\ goroutines = EmptyBag
  /\ invoked = EmptyBag
  /\ blocked = 0
  /\ crashed = FALSE
  /\ last = Call("none", "", "", <<>>, "", <<>>)
  /\ nSub = 0 /\ nUnsub = 0 /\ nConn = 0 /\ nDisc = 0 /\ nFrames = 0
  /\ credentials = 1
  /\ calls = <<>>
  /\ eventMux = 0
  /\ wsLock = {}
  /\ gateway = NoRequest


\* --------------------------------------------------------------- send path
\* sendWebSocketMessage: "nil" or the error. writeOk is the outcome of
\* c.wsConn.WriteJSON, which the transport decides.
sendWebSocketMessage(conn, writeOk) ==
  IF conn = 0 THEN "not established"
  ELSE IF writeOk THEN "nil" ELSE "write failed"

WireMsg(conn, op, topic) == [conn |-> conn, op |-> op, topic |-> topic]

\* ---------------------------------------------------------------- Subscribe
\* faulty variant: the empty argument list is let through
ValidateEventTypesNoEmptyCheck(eventTypes) ==
  IF \E i \in 1..Len(eventTypes) : eventTypes[i] \notin validEventTypes
  THEN "invalid event type"
  ELSE "nil"

\* faulty variant: only the first event type is looked at
ValidateEventTypesFirstOnly(eventTypes) ==
  IF Len(eventTypes) > 0
  THEN IF eventTypes[1] \notin validEventTypes
       THEN "invalid event type"
       ELSE "nil"
  ELSE "no event type"

\* the validation at the head of Subscribe: "nil" or the error returned
ValidateEventTypes(eventTypes) ==
  IF Len(eventTypes) > 0
  THEN IF \E i \in 1..Len(eventTypes) : eventTypes[i] \notin validEventTypes
       THEN "invalid event type"
       ELSE "nil"
  ELSE "no event type"

\* the closure wrappedHandler: the user's handler and the captured eventTypes.
\* Each Subscribe call makes a closure of its own; topic tells the closures of
\* calls for different endpoints apart and is read by nothing in the program.
WrappedHandler(endpoint, handler, eventTypes) ==
  [h |-> handler, types |-> eventTypes, topic |-> endpoint]

\* faulty variant: the wrapper calls the handler whatever the event type
WrappedHandlerFiresAlways(w, event) == Len(w.types) > 0

\* wrappedHandler(event) calls handler(event) iff this holds
WrappedHandlerFires(w, event) ==
  \E i \in 1..Len(w.types) : event.EventType = w.types[i]

\* faulty variant: the slices are assigned, not appended to
RegisterReplacing(reg, endpoint, w) ==
  [k \in DOMAIN reg |-> IF k \in {endpoint, CatchAll} THEN <<w>> ELSE reg[k]]

\* c.handlers[endpoint] = append(...); c.handlers["OnJsonApiEvent"] = append(...)
Register(reg, endpoint, w) ==
  LET r1 == [reg EXCEPT ![endpoint] = Append(@, w)]
  IN  [r1 EXCEPT ![CatchAll] = Append(@, w)]

\* faulty variant: the event bus is subscribed first
SubscribeSendsBusFirst(conn, endpoint, ok1, ok2) ==
  LET m1 == WireMsg(conn, OpSubscribe, CatchAll)
      m2 == WireMsg(conn, OpSubscribe, endpoint)
      e1 == sendWebSocketMessage(conn, ok1)
      e2 == sendWebSocketMessage(conn, ok2)
  IN  IF e1 # "nil" THEN [sent |-> <<>>, err |-> e1]
      ELSE IF e2 # "nil" THEN [sent |-> <<m1>>, err |-> e2]
      ELSE [sent |-> <<m1, m2>>, err |-> "nil"]

\* the send loop of Subscribe over {endpoint, "OnJsonApiEvent"}: the messages
\* written and the error returned, given the two write outcomes
SubscribeSends(conn, endpoint, ok1, ok2) ==
  LET m1 == WireMsg(conn, OpSubscribe, endpoint)
      m2 == WireMsg(conn, OpSubscribe, CatchAll)
      e1 == sendWebSocketMessage(conn, ok1)
      e2 == sendWebSocketMessage(conn, ok2)
  IN  IF e1 # "nil" THEN [sent |-> <<>>, err |-> e1]
      ELSE IF e2 # "nil" THEN [sent |-> <<m1>>, err |-> e2]
      ELSE [sent |-> <<m1, m2>>, err |-> "nil"]

\* faulty variant: the wrapper is registered only once both messages are sent
DoSubscribeSendsFirst(op, endpoint, handler, eventTypes, ok1, ok2) ==
  /\ ~crashed
  /\ nSub < MaxSubscribes
  /\ nSub' = nSub + 1
  /\ \/ /\ ValidateEventTypes(eventTypes) # "nil"
        /\ last' = Call(op, endpoint, handler, eventTypes,
                        ValidateEventTypes(eventTypes), <<>>)
        /\ UNCHANGED handlers
     \/ /\ ValidateEventTypes(eventTypes) = "nil"
        /\ LET r == SubscribeSends(wsConn, endpoint, ok1, ok2)
           IN  /\ last' = Call(op, endpoint, handler, eventTypes, r.err, r.sent)
               /\ handlers' = IF r.err = "nil"
                              THEN Register(handlers, endpoint,
                                     WrappedHandler(endpoint, handler, eventTypes))
                              ELSE handlers
  /\ UNCHANGED <<credentials, concurrent, resolver, gateway, wsConn, done, dialled, listeners, goroutines, invoked, blocked,
                 crashed, nUnsub, nConn, nDisc, nFrames>>

DoSubscribe(op, endpoint, handler, eventTypes, ok1, ok2) ==
  /\ ~crashed
  /\ nSub < MaxSubscribes
  /\ nSub' = nSub + 1
  /\ \/ /\ ValidateEventTypes(eventTypes) # "nil"
        /\ last' = Call(op, endpoint, handler, eventTypes,
                        ValidateEventTypes(eventTypes), <<>>)
        /\ UNCHANGED handlers
     \/ /\ ValidateEventTypes(eventTypes) = "nil"
        /\ handlers' = Register(handlers, endpoint,
                             WrappedHandler(endpoint, handler, eventTypes))
        /\ LET r == SubscribeSends(wsConn, endpoint, ok1, ok2)
           IN  last' = Call(op, endpoint, handler, eventTypes, r.err, r.sent)
  /\ UNCHANGED <<credentials, concurrent, resolver, gateway, wsConn, done, dialled, listeners, goroutines, invoked, blocked,
                 crashed, nUnsub, nConn, nDisc, nFrames>>

\* ok1, ok2: the outcomes of the two socket writes, should they be reached
Subscribe(endpoint, handler, eventTypes, ok1, ok2) ==
  DoSubscribe("Subscribe", endpoint, handler, eventTypes, ok1, ok2)

SubscribeToAll(handler, ok1, ok2) ==
  DoSubscribe("SubscribeToAll", RootTopic, handler, AllTypes, ok1, ok2)

\* -------------------------------------------------------------- Unsubscribe
\* faulty variant: the event-bus entry is deleted along with the endpoint's
UnregisterWithBus(reg, endpoint) ==
  [k \in DOMAIN reg |-> IF k \in {endpoint, CatchAll} THEN <<>> ELSE reg[k]]

\* faulty variant: the map is cleared instead of the one key deleted
UnregisterClearsMap(reg, endpoint) == [k \in DOMAIN reg |-> <<>>]

\* faulty variant: only the newest entry of the endpoint is removed
UnregisterLatestOnly(reg, endpoint) ==
  [reg EXCEPT ![endpoint] = IF @ = <<>> THEN <<>> ELSE SubSeq(@, 1, Len(@) - 1)]

\* faulty variant: the entry is left in the map
UnregisterKeepsEntry(reg, endpoint) == reg

\* delete(c.handlers, endpoint)
Unregister(reg, endpoint) == [reg EXCEPT ![endpoint] = <<>>]

Unsubscribe(endpoint, ok) ==
  /\ ~crashed
  /\ nUnsub < MaxUnsubscribes
  /\ nUnsub' = nUnsub + 1
  /\ handlers' = Unregister(handlers, endpoint)
  /\ LET e == sendWebSocketMessage(wsConn, ok)
     IN  last' = Call("Unsubscribe", endpoint, "", <<>>, e,
                      IF e = "nil"
                      THEN <<WireMsg(wsConn, OpUnsubscribe, endpoint)>>
                      ELSE <<>>)
  /\ UNCHANGED <<credentials, concurrent, resolver, gateway, wsConn, done, dialled, listeners, goroutines, invoked, blocked,
                 crashed, nSub, nConn, nDisc, nFrames>>

\* ------------------------------------------------------ Connect / Disconnect
\* the ways a Connect call can end: testConnection fails, the WebSocket
\* handshake fails, or both succeed
ConnectOutcomes == {"probe failed", "handshake failed", "nil"}

\* faulty variant: the handle is stored before the handshake's error is looked at
ConnectStepsStoreFirst(outcome) ==
  IF outcome = "probe failed" THEN <<"probe">>
  ELSE IF outcome = "handshake failed" THEN <<"probe", "dial", "store">>
  ELSE <<"probe", "dial", "store", "listen">>

\* what a Connect call does, in order: the HTTP probe of testConnection, the
\* Dial of connectWebSocket, the store of the handle, the start of the listener
ConnectSteps(outcome) ==
  IF outcome = "probe failed" THEN <<"probe">>
  ELSE IF outcome = "handshake failed" THEN <<"probe", "dial">>
  ELSE <<"probe", "dial", "store", "listen">>

\* faulty variant: every Connect resolves the credentials anew and stores them
ConnectReresolves(outcome) ==
  /\ ~crashed
  /\ nConn < MaxConnects
  /\ nConn' = nConn + 1
  /\ credentials' = credentials + 1
  /\ LET steps == ConnectSteps(outcome)
     IN  /\ last' = Call("Connect", "", "", <<>>, outcome, steps)
         /\ IF "store" \in Range(steps)
            THEN dialled' = dialled + 1 /\ wsConn' = dialled + 1
            ELSE UNCHANGED <<wsConn, dialled>>
         /\ IF "listen" \in Range(steps)
            THEN listeners' = Append(listeners,
                                     Listener("select", NoFrame, NoEvent, <<>>, ""))
            ELSE UNCHANGED listeners
  /\ UNCHANGED <<concurrent, resolver, gateway, handlers, done, goroutines, invoked, blocked, crashed,
                 nSub, nUnsub, nDisc, nFrames>>

\* Connect: testConnection (probe), then connectWebSocket (dial, store the
\* handle, start the listener). outcome is what the network decides; the steps
\* taken are recorded as what the call did on the network.
Connect(outcome) ==
  /\ ~crashed
  /\ nConn < MaxConnects
  /\ nConn' = nConn + 1
  /\ LET steps == ConnectSteps(outcome)
     IN  /\ last' = Call("Connect", "", "", <<>>, outcome, steps)
         /\ IF "store" \in Range(steps)
            THEN dialled' = dialled + 1 /\ wsConn' = dialled + 1
            ELSE UNCHANGED <<wsConn, dialled>>
         /\ IF "listen" \in Range(steps)
            THEN listeners' = Append(listeners,
                                     Listener("select", NoFrame, NoEvent, <<>>, ""))
            ELSE UNCHANGED listeners
  /\ UNCHANGED <<credentials, concurrent, resolver, gateway, handlers, done, goroutines, invoked, blocked, crashed,
                 nSub, nUnsub, nDisc, nFrames>>

\* faulty variant: the registry is emptied along with the connection
DisconnectClearsHandlers ==
  /\ ~crashed
  /\ nDisc < MaxDisconnects
  /\ nDisc' = nDisc + 1
  /\ \/ /\ done
        /\ last' = Call("Disconnect", "", "", <<>>, "panic: close of closed channel", <<>>)
        /\ UNCHANGED <<done, wsConn, handlers>>
     \/ /\ ~done
        /\ done' = TRUE
        /\ wsConn' = 0
        /\ handlers' = [k \in DOMAIN handlers |-> <<>>]
        /\ last' = Call("Disconnect", "", "", <<>>, "nil", <<>>)
  /\ UNCHANGED <<credentials, concurrent, resolver, gateway, dialled, listeners, goroutines, invoked,
                 blocked, crashed, nSub, nUnsub, nConn, nFrames>>

\* Disconnect: close(c.done) panics when the channel is already closed, before
\* anything else is done; otherwise the socket is closed and the handle cleared.
Disconnect ==
  /\ ~crashed
  /\ nDisc < MaxDisconnects
  /\ nDisc' = nDisc + 1
  /\ \/ /\ done
        /\ last' = Call("Disconnect", "", "", <<>>, "panic: close of closed channel", <<>>)
        /\ UNCHANGED <<done, wsConn>>
     \/ /\ ~done
        /\ done' = TRUE
        /\ wsConn' = 0
        /\ last' = Call("Disconnect", "", "", <<>>, "nil", <<>>)
  /\ UNCHANGED <<credentials, concurrent, resolver, gateway, handlers, dialled, listeners, goroutines, invoked, blocked,
                 crashed, nSub, nUnsub, nConn, nFrames>>

\* ----------------------------------------------------------------- listener
\* a Go map read: the zero value (nil slice) for a missing key
Lookup(reg, key) == IF key \in DOMAIN reg THEN reg[key] ELSE <<>>

\* the event the listener builds from any non-empty message
RawEvent(message) == Event(RawEventType, CatchAll, "", message)

\* the Event handleEvent decodes from message[2]
DecodeEvent(message) == Event(message.eventType, message.uri, message.data, NoFrame)

\* faulty variant: the root-path handlers are added for every channel
ResolveHandlersRootAlways(reg, eventName, event) ==
  IF eventName = CatchAll
  THEN Lookup(reg, event.URI) \o Lookup(reg, RootTopic)
  ELSE Lookup(reg, eventName) \o Lookup(reg, RootTopic)

\* the subsequence of the wrappers whose type check lets the event through
RECURSIVE Firing(_, _)
Firing(hs, event) ==
  IF hs = <<>> THEN <<>>
  ELSE IF WrappedHandlerFires(Head(hs), event)
       THEN <<Head(hs)>> \o Firing(Tail(hs), event)
       ELSE Firing(Tail(hs), event)

\* faulty variant: a wrapper is not started for an event it was already
\* started for or its handler already called with
GoHandlersDeduplicating(hs, event) ==
  LET fresh(w) == /\ ~BagIn([w |-> w, ev |-> event], goroutines)
                  /\ ~BagIn([h |-> w.h, ev |-> event], invoked)
      fs == SelectSeq(Firing(hs, event), fresh)
  IN  SeqToBag([i \in 1..Len(fs) |-> [w |-> fs[i], ev |-> event]])

\* `for _, handler := range handlers { go handler(event) }`: one goroutine per
\* wrapper. A wrapper whose type check rejects the event returns at once and
\* touches no state, so only the goroutines that go on to call the user's handler
\* are kept.
GoHandlers(hs, event) ==
  LET fs == Firing(hs, event)
  IN  SeqToBag([i \in 1..Len(fs) |-> [w |-> fs[i], ev |-> event]])

\* faulty variant: a bus event is resolved through the event-bus key as well
ResolveHandlersThroughBothKeys(reg, eventName, event) ==
  IF eventName = CatchAll
  THEN Lookup(reg, event.URI) \o Lookup(reg, CatchAll) \o Lookup(reg, RootTopic)
  ELSE Lookup(reg, eventName)

\* handleEvent's choice of handlers, under the read lock
ResolveHandlers(reg, eventName, event) ==
  IF eventName = CatchAll
  THEN Lookup(reg, event.URI) \o Lookup(reg, RootTopic)
  ELSE Lookup(reg, eventName)

\* faulty variant: every numeric opcode is taken for an event
IsEventMessageAnyOpcode(message) == message.n > 0 /\ message.opNum

\* where the listener goes after the raw dispatch of a message
IsEventMessage(message) == message.n > 0 /\ message.opNum /\ message.op = OpEvent

SetListener(i, l) == listeners' = [listeners EXCEPT ![i] = l]

Idle(pc, why) == Listener(pc, NoFrame, NoEvent, <<>>, why)

\* select { case <-c.done: return; default: ... } with c.done closed
ListenerStop(i) ==
  /\ ~crashed
  /\ listeners[i].pc = "select"
  /\ done
  /\ SetListener(i, Idle("exited", "done"))
  /\ UNCHANGED <<credentials, concurrent, resolver, gateway, handlers, wsConn, done, dialled, goroutines, invoked, blocked,
                 crashed, last, nSub, nUnsub, nConn, nDisc, nFrames>>

\* select { case <-c.done: return; default: ... } with c.done open
ListenerSelect(i) ==
  /\ ~crashed
  /\ listeners[i].pc = "select"
  /\ ~done
  /\ SetListener(i, Idle("read", ""))
  /\ UNCHANGED <<credentials, concurrent, resolver, gateway, handlers, wsConn, done, dialled, goroutines, invoked, blocked,
                 crashed, last, nSub, nUnsub, nConn, nDisc, nFrames>>

\* faulty variant: the read error is logged and the loop goes on
ListenerReadFailsRetry(i) ==
  /\ ~crashed
  /\ listeners[i].pc = "read"
  /\ SetListener(i, Idle("select", "read error"))
  /\ UNCHANGED <<credentials, concurrent, resolver, gateway, handlers, wsConn, done, dialled, goroutines, invoked, blocked,
                 crashed, last, nSub, nUnsub, nConn, nDisc, nFrames>>

\* c.wsConn.ReadJSON(&message) returns an error (a transport error, or the
\* socket was closed by Disconnect): logged, and the listener returns.
ListenerReadFails(i) ==
  /\ ~crashed
  /\ listeners[i].pc = "read"
  /\ SetListener(i, Idle("exited", "read error"))
  /\ UNCHANGED <<credentials, concurrent, resolver, gateway, handlers, wsConn, done, dialled, goroutines, invoked, blocked,
                 crashed, last, nSub, nUnsub, nConn, nDisc, nFrames>>

\* c.wsConn is read without the lock after Disconnect cleared it: ReadJSON on
\* the nil handle panics, the deferred recover logs it, the listener returns.
ListenerReadNil(i) ==
  /\ ~crashed
  /\ listeners[i].pc = "read"
  /\ wsConn = 0
  /\ SetListener(i, Idle("exited", "panic"))
  /\ UNCHANGED <<credentials, concurrent, resolver, gateway, handlers, wsConn, done, dialled, goroutines, invoked, blocked,
                 crashed, last, nSub, nUnsub, nConn, nDisc, nFrames>>

\* c.wsConn.ReadJSON(&message) yields message; then the raw dispatch to the
\* handlers under "OnJsonApiEvent", which are read under c.eventMux.RLock() (so
\* not while a Subscribe holds the lock), and the opcode switch
ListenerRead(i, message) ==
  /\ ~crashed
  /\ listeners[i].pc = "read"
  /\ wsConn # 0
  /\ nFrames < MaxFrames
  /\ message.n > 0 => eventMux = 0
  /\ nFrames' = nFrames + 1
  /\ goroutines' = IF message.n > 0
                   THEN goroutines (+) GoHandlers(Lookup(handlers, CatchAll),
                                                  RawEvent(message))
                   ELSE goroutines
  /\ SetListener(i, IF IsEventMessage(message)
                    THEN Listener("event", message, NoEvent, <<>>, "")
                    ELSE Idle("select", "ignored"))
  /\ UNCHANGED <<credentials, concurrent, resolver, gateway, handlers, wsConn, done, dialled, invoked, blocked,
                 crashed, last, nSub, nUnsub, nConn, nDisc>>

\* faulty variant: a body without a string eventType or uri is dropped like
\* the other frames that cannot be decoded
ListenerHandleEventDropsUndecodable(i) ==
  /\ ~crashed
  /\ listeners[i].pc = "event"
  /\ LET message == listeners[i].msg
     IN  \/ /\ \/ message.n < MinEventLen
               \/ ~message.chanStr
               \/ ~message.bodyObj
            /\ SetListener(i, Idle("select", ""))
         \/ /\ message.n >= MinEventLen /\ message.chanStr /\ message.bodyObj
            /\ ~message.hasType \/ ~message.hasUri
            /\ SetListener(i, Idle("select", ""))
         \/ /\ message.n >= MinEventLen /\ message.chanStr /\ message.bodyObj
            /\ message.hasType /\ message.hasUri
            /\ eventMux = 0
            /\ SetListener(i, Listener("spawn", message, DecodeEvent(message),
                    ResolveHandlers(handlers, message.chan, DecodeEvent(message)), ""))
  /\ UNCHANGED <<credentials, concurrent, resolver, gateway, handlers, wsConn, done, dialled, goroutines, invoked, blocked,
                 crashed, last, nSub, nUnsub, nConn, nDisc, nFrames>>

\* handleEvent up to the release of the read lock, which it takes only once
\* the event is decoded
ListenerHandleEvent(i) ==
  /\ ~crashed
  /\ listeners[i].pc = "event"
  /\ LET message == listeners[i].msg
     IN  \/ /\ \/ message.n < MinEventLen
               \/ ~message.chanStr
               \/ ~message.bodyObj
            /\ SetListener(i, Idle("select", ""))
         \/ /\ message.n >= MinEventLen /\ message.chanStr /\ message.bodyObj
            /\ ~message.hasType \/ ~message.hasUri
            /\ SetListener(i, Idle("exited", "panic"))
         \/ /\ message.n >= MinEventLen /\ message.chanStr /\ message.bodyObj
            /\ message.hasType /\ message.hasUri
            /\ eventMux = 0
            /\ SetListener(i, Listener("spawn", message, DecodeEvent(message),
                    ResolveHandlers(handlers, message.chan, DecodeEvent(message)), ""))
  /\ UNCHANGED <<credentials, concurrent, resolver, gateway, handlers, wsConn, done, dialled, goroutines, invoked, blocked,
                 crashed, last, nSub, nUnsub, nConn, nDisc, nFrames>>

\* handleEvent's `for _, handler := range handlers { go handler(event) }`
ListenerSpawn(i) ==
  /\ ~crashed
  /\ listeners[i].pc = "spawn"
  /\ goroutines' = goroutines (+) GoHandlers(listeners[i].snap, listeners[i].ev)
  /\ SetListener(i, Idle("select", ""))
  /\ UNCHANGED <<credentials, concurrent, resolver, gateway, handlers, wsConn, done, dialled, invoked, blocked,
                 crashed, last, nSub, nUnsub, nConn, nDisc, nFrames>>

\* ------------------------------------------------------- handler goroutines
\* what a call of a user's handler can do
HandlerOutcomes == {"returns", "panics", "blocks"}

\* one `go handler(event)` whose wrapper calls the user's handler: the handler
\* returns, panics (nothing recovers on this goroutine: the process dies) or
\* never returns.
RunHandler(g, outcome) ==
  /\ ~crashed
  /\ BagIn(g, goroutines)
  /\ goroutines' = goroutines (-) SetToBag({g})
  /\ invoked' = invoked (+) SetToBag({[h |-> g.w.h, ev |-> g.ev]})
  /\ crashed' = (outcome = "panics")
  /\ blocked' = IF outcome = "blocks" THEN blocked + 1 ELSE blocked
  /\ UNCHANGED <<credentials, concurrent, resolver, gateway, handlers, wsConn, done, dialled, listeners,
                 last, nSub, nUnsub, nConn, nDisc, nFrames>>

\* --------------------------------------------------------- concurrent calls
\* Subscribe and Unsubscribe above are taken a call at a time. Here the same
\* calls are followed through their lock operations and socket writes, so that
\* several of them can be under way at once. A call is at "lock" (about to
\* take c.eventMux), at "send" (about to enter sendWebSocketMessage), at
\* "write" (inside c.wsConn.WriteJSON, holding the read lock of c.wsLock) or
\* "returned". Subscribe is called with handler "h1" and the filter Update.
CallTopics == {"/a", "/b"}

ApiCall(op, endpoint, pc, sent, err) ==
  [op |-> op, endpoint |-> endpoint, pc |-> pc, sent |-> sent, err |-> err]

\* faulty variant: Subscribe returns without releasing c.eventMux
ReturnKeepsLock(t, sent, err) ==
  /\ calls' = [calls EXCEPT ![t] = ApiCall(calls[t].op, calls[t].endpoint,
                                           "returned", sent, err)]
  /\ eventMux' = eventMux

\* the call returns err; the deferred c.eventMux.Unlock() of Subscribe runs
Return(t, sent, err) ==
  /\ calls' = [calls EXCEPT ![t] = ApiCall(calls[t].op, calls[t].endpoint,
                                           "returned", sent, err)]
  /\ eventMux' = IF eventMux = t THEN 0 ELSE eventMux

\* a goroutine calls Subscribe(endpoint, h1, Update) or Unsubscribe(endpoint);
\* the filter is valid, so Subscribe gets to c.eventMux.Lock()
CallStart(op, endpoint) ==
  /\ ~crashed
  /\ Len(calls) < MaxCalls
  /\ calls' = Append(calls, ApiCall(op, endpoint, "lock", <<>>, ""))
  /\ UNCHANGED <<handlers, wsConn, done, dialled, listeners, goroutines,
                 invoked, blocked, crashed, last, nSub, nUnsub, nConn, nDisc,
                 nFrames, credentials, resolver, gateway, eventMux, wsLock>>

\* Subscribe: c.eventMux.Lock(), kept until the call returns, and the two
\* appends to c.handlers
SubscribeLock(t) ==
  /\ calls[t].op = "Subscribe" /\ calls[t].pc = "lock"
  /\ eventMux = 0
  /\ eventMux' = t
  /\ handlers' = Register(handlers, calls[t].endpoint,
                          WrappedHandler(calls[t].endpoint, "h1", <<"Update">>))
  /\ calls' = [calls EXCEPT ![t].pc = "send"]
  /\ UNCHANGED <<wsConn, done, dialled, listeners, goroutines, invoked,
                 blocked, crashed, last, nSub, nUnsub, nConn, nDisc, nFrames,
                 credentials, resolver, gateway, wsLock>>

\* Unsubscribe: c.eventMux.Lock(); delete(c.handlers, endpoint);
\* c.eventMux.Unlock(): the lock is free again before the message is sent
UnsubscribeDelete(t) ==
  /\ calls[t].op = "Unsubscribe" /\ calls[t].pc = "lock"
  /\ eventMux = 0
  /\ handlers' = Unregister(handlers, calls[t].endpoint)
  /\ calls' = [calls EXCEPT ![t].pc = "send"]
  /\ UNCHANGED <<wsConn, done, dialled, listeners, goroutines, invoked,
                 blocked, crashed, last, nSub, nUnsub, nConn, nDisc, nFrames,
                 credentials, resolver, gateway, eventMux, wsLock>>

\* sendWebSocketMessage up to the write: c.wsLock.RLock(), which other
\* holders of the read lock do not keep out but a Disconnect waiting in
\* c.wsLock.Lock() does, and the nil check of c.wsConn
SendBegin(t) ==
  /\ calls[t].pc = "send"
  /\ \A u \in DOMAIN calls : calls[u].pc # "wswait"
  /\ IF wsConn = 0
     THEN /\ Return(t, calls[t].sent, sendWebSocketMessage(wsConn, TRUE))
          /\ UNCHANGED wsLock
     ELSE /\ wsLock' = wsLock \cup {t}
          /\ calls' = [calls EXCEPT ![t].pc = "write"]
          /\ UNCHANGED eventMux
  /\ UNCHANGED <<handlers, wsConn, done, dialled, listeners, goroutines,
                 invoked, blocked, crashed, last, nSub, nUnsub, nConn, nDisc,
                 nFrames, credentials, resolver, gateway>>

\* the message the call is about to write: [6, endpoint] for Unsubscribe,
\* [5, endpoint] and then [5, "OnJsonApiEvent"] for Subscribe
NextMsg(c) ==
  IF c.op = "Unsubscribe" THEN WireMsg(wsConn, OpUnsubscribe, c.endpoint)
  ELSE IF c.sent = <<>> THEN WireMsg(wsConn, OpSubscribe, c.endpoint)
  ELSE WireMsg(wsConn, OpSubscribe, CatchAll)

\* c.wsConn.WriteJSON(message) returns and the deferred c.wsLock.RUnlock()
\* runs; Subscribe goes on to its second message, else the call returns
SendEnd(t, writeOk) ==
  /\ calls[t].pc = "write"
  /\ wsLock' = wsLock \ {t}
  /\ LET e == sendWebSocketMessage(wsConn, writeOk)
         sent == IF e = "nil" THEN Append(calls[t].sent, NextMsg(calls[t]))
                 ELSE calls[t].sent
     IN  IF e = "nil" /\ calls[t].op = "Subscribe" /\ Len(sent) < 2
         THEN /\ calls' = [calls EXCEPT ![t].pc = "send", ![t].sent = sent]
              /\ UNCHANGED eventMux
         ELSE Return(t, sent, e)
  /\ UNCHANGED <<handlers, wsConn, done, dialled, listeners, goroutines,
                 invoked, blocked, crashed, last, nSub, nUnsub, nConn, nDisc,
                 nFrames, credentials, resolver, gateway>>

\* Disconnect followed through its steps: at "close" (about to close c.done),
\* at "wslock" (about to call c.wsLock.Lock()), at "wswait" (inside Lock,
\* waiting for the holders of the read lock to leave) or "returned".
DisconnectStart ==
  /\ ~crashed
  /\ Cardinality({u \in DOMAIN calls : calls[u].op = "Disconnect"}) < MaxDisconnects
  /\ calls' = Append(calls, ApiCall("Disconnect", "", "close", <<>>, ""))
  /\ UNCHANGED <<handlers, wsConn, done, dialled, listeners, goroutines,
                 invoked, blocked, crashed, last, nSub, nUnsub, nConn, nDisc,
                 nFrames, credentials, resolver, gateway, eventMux, wsLock>>

\* close(c.done): a panic when the channel is closed already
DisconnectCloseDone(t) ==
  /\ calls[t].op = "Disconnect" /\ calls[t].pc = "close"
  /\ IF done
     THEN /\ Return(t, <<>>, "panic: close of closed channel")
          /\ UNCHANGED done
     ELSE /\ done' = TRUE
          /\ calls' = [calls EXCEPT ![t].pc = "wslock"]
          /\ UNCHANGED eventMux
  /\ UNCHANGED <<handlers, wsConn, dialled, listeners, goroutines, invoked,
                 blocked, crashed, last, nSub, nUnsub, nConn, nDisc, nFrames,
                 credentials, resolver, gateway, wsLock>>

\* c.wsLock.Lock() is entered: from here on no new reader gets in
DisconnectLock(t) ==
  /\ calls[t].op = "Disconnect" /\ calls[t].pc = "wslock"
  /\ calls' = [calls EXCEPT ![t].pc = "wswait"]
  /\ UNCHANGED <<handlers, wsConn, done, dialled, listeners, goroutines,
                 invoked, blocked, crashed, last, nSub, nUnsub, nConn, nDisc,
                 nFrames, credentials, resolver, gateway, eventMux, wsLock>>

\* faulty variant: Disconnect closes the socket without waiting for the
\* holders of the read lock
DisconnectCloseUnlocked(t) ==
  /\ calls[t].op = "Disconnect" /\ calls[t].pc = "wswait"
  /\ wsConn' = 0
  /\ Return(t, <<>>, "nil")
  /\ UNCHANGED <<handlers, done, dialled, listeners, goroutines, invoked,
                 blocked, crashed, last, nSub, nUnsub, nConn, nDisc, nFrames,
                 credentials, resolver, gateway, wsLock>>

\* the lock is granted once the readers have left; c.wsConn.Close() if there
\* is a socket, c.wsConn = nil, c.wsLock.Unlock(), and the call returns
DisconnectClose(t) ==
  /\ calls[t].op = "Disconnect" /\ calls[t].pc = "wswait"
  /\ wsLock = {}
  /\ wsConn' = 0
  /\ Return(t, <<>>, "nil")
  /\ UNCHANGED <<handlers, done, dialled, listeners, goroutines, invoked,
                 blocked, crashed, last, nSub, nUnsub, nConn, nDisc, nFrames,
                 credentials, resolver, gateway, wsLock>>

\* ------------------------------------------------------ credential discovery
\* Strings that the code takes apart (file contents, fields) are sequences of
\* characters. Text is the set of them up to MaxLen characters.
Alphabet == {"1", "-", "a", ":"}
Text == UNION { [1..n -> Alphabet] : n \in 0..MaxLen }

Digit == [c \in {"0", "1", "9"} |-> IF c = "0" THEN 0 ELSE IF c = "1" THEN 1 ELSE 9]

\* Credentials{Port, Password, Protocol}; the nil pointer is NoCredentials
Credentials(port, password, protocol) ==
  [port |-> port, password |-> password, protocol |-> protocol]
NoCredentials == Credentials(0, <<>>, <<>>)
Https == <<"https">>

\* a (*Credentials, error) pair
Found(creds) == [err |-> "nil", creds |-> creds]
Failed(err) == [err |-> err, creds |-> NoCredentials]

\* strings.Split(s, ":")
RECURSIVE Split(_)
Split(s) ==
  IF \A i \in 1..Len(s) : s[i] # ":" THEN <<s>>
  ELSE LET i == CHOOSE j \in 1..Len(s) :
                  s[j] = ":" /\ \A k \in 1..(j - 1) : s[k] # ":"
       IN  <<SubSeq(s, 1, i - 1)>> \o Split(SubSeq(s, i + 1, Len(s)))

\* the largest int, digit by digit, and its number of digits (64-bit build)
MaxIntDigits == <<9,2,2,3,3,7,2,0,3,6,8,5,4,7,7,5,8,0,7>>
IntDigits == 19

\* the digits d, of which there are IntDigits, stand for more than the
\* largest int, or for more than its successor when the sign is "-"
RECURSIVE Above(_, _, _)
Above(d, i, neg) ==
  IF i > IntDigits THEN FALSE
  ELSE LET lim == IF neg /\ i = IntDigits THEN MaxIntDigits[i] + 1 ELSE MaxIntDigits[i]
       IN  IF Digit[d[i]] > lim THEN TRUE
           ELSE IF Digit[d[i]] < lim THEN FALSE
           ELSE Above(d, i + 1, neg)

RECURSIVE Accumulate(_, _)
Accumulate(d, n) == IF d = <<>> THEN n ELSE Accumulate(Tail(d), n * 10 + Digit[Head(d)])

\* d without its leading zeros
RECURSIVE Significant(_)
Significant(d) == IF d # <<>> /\ Head(d) = "0" THEN Significant(Tail(d)) ELSE d

\* strconv.Atoi: an optional sign, then decimal digits only, at least one; a
\* value outside int is a range error
Atoi(s) ==
  LET signed == s # <<>> /\ Head(s) \in {"+", "-"}
      d == IF signed THEN Tail(s) ELSE s
      neg == signed /\ Head(s) = "-"
      sig == Significant(d)
  IN  IF d = <<>> \/ \E i \in 1..Len(d) : d[i] \notin DOMAIN Digit
      THEN [err |-> "syntax", n |-> 0]
      ELSE IF Len(sig) > IntDigits \/ (Len(sig) = IntDigits /\ Above(sig, 1, neg))
      THEN [err |-> "range", n |-> 0]
      ELSE [err |-> "nil", n |-> IF neg THEN 0 - Accumulate(sig, 0) ELSE Accumulate(sig, 0)]

\* faulty variant: more than five fields are accepted
ParseLockfileAtLeastFive(data) ==
  LET parts == Split(data)
  IN  IF Len(parts) < 5 THEN Failed("invalid format")
      ELSE IF Atoi(parts[3]).err # "nil" THEN Failed("invalid port")
      ELSE Found(Credentials(Atoi(parts[3]).n, parts[4], parts[5]))

\* what findCredentialsFromLockfile makes of the content of one file
ParseLockfile(data) ==
  LET parts == Split(data)
  IN  IF Len(parts) # 5 THEN Failed("invalid format")
      ELSE IF Atoi(parts[3]).err # "nil" THEN Failed("invalid port")
      ELSE Found(Credentials(Atoi(parts[3]).n, parts[4], parts[5]))

\* s1:s2:...:sn
RECURSIVE Join(_)
Join(fields) ==
  IF Len(fields) = 1 THEN fields[1]
  ELSE fields[1] \o <<":">> \o Join(Tail(fields))

Nines(n) == [i \in 1..n |-> "9"]
Zeros(n) == [i \in 1..n |-> "0"]

\* lockfile contents: every text up to MaxLen characters, and some with a
\* port field that Text does not have: a plus sign, leading zeros, zero, and
\* numbers too large for int
LockfileContents ==
  Text \cup { Join(<<<<"a">>, <<"1">>, port, <<"a", "a">>, Https>>) :
              port \in { <<"+", "1">>, <<"0">>, <<"0", "1", "9">>, <<"-", "0">>,
                         <<"+">>, <<"1", "+">>, Zeros(IntDigits) \o <<"1">>,
                         Nines(IntDigits), <<"-">> \o Nines(IntDigits),
                         Nines(IntDigits + 1) } }

\* os.ReadFile: a file that is there with its content, or one that is not
File(data) == [exists |-> TRUE, data |-> data]
NoFile == [exists |-> FALSE, data |-> <<>>]

Platforms == {"windows", "darwin", "linux", "other"}
CustomPath == "custom"
AllPaths == {CustomPath, "C", "D", "E", "F", "G", "app", "c", "d", "e", "f", "g"}

\* faulty variant: the configured path is looked at after the platform's
PossiblePathsCustomLast(os, cfg) ==
  LET custom == IF cfg.LeaguePath # "" THEN <<CustomPath>> ELSE <<>>
  IN  IF os = "windows" THEN [err |-> "nil", paths |-> <<"C", "D", "E", "F", "G">> \o custom]
      ELSE IF os = "darwin" THEN [err |-> "nil", paths |-> <<"app">> \o custom]
      ELSE IF os = "linux" THEN [err |-> "nil", paths |-> <<"c", "d", "e", "f", "g">> \o custom]
      ELSE [err |-> "unsupported platform", paths |-> <<>>]

\* the list findCredentialsFromLockfile builds: the configured path first,
\* then the platform's; no list on a platform it does not know
PossiblePaths(os, cfg) ==
  LET custom == IF cfg.LeaguePath # "" THEN <<CustomPath>> ELSE <<>>
  IN  IF os = "windows" THEN [err |-> "nil", paths |-> custom \o <<"C", "D", "E", "F", "G">>]
      ELSE IF os = "darwin" THEN [err |-> "nil", paths |-> custom \o <<"app">>]
      ELSE IF os = "linux" THEN [err |-> "nil", paths |-> custom \o <<"c", "d", "e", "f", "g">>]
      ELSE [err |-> "unsupported platform", paths |-> <<>>]

\* what the process listing gives: the command fails, or it prints text in
\* which the installation path and the two flags are found or not. port and
\* token are what the regular expressions capture; nothing captured is <<>>.
ProcessOutput(cmdOk, path, port, token) ==
  [cmdOk |-> cmdOk, path |-> path, port |-> port, token |-> token]
ProcessOutputs ==
  { ProcessOutput(FALSE, "", <<>>, <<>>),
    ProcessOutput(TRUE, "", <<>>, <<>>),
    ProcessOutput(TRUE, "found", <<"1">>, <<>>),
    ProcessOutput(TRUE, "found", <<>>, <<"a">>),
    ProcessOutput(TRUE, "found", <<"1", "1">>, <<"a">>),
    ProcessOutput(TRUE, "", <<"9">>, <<"a", "-", "a">>) }

\* parseProcessOutput
parseProcessOutput(out) ==
  IF out.port = <<>> \/ out.token = <<>>
  THEN Failed("failed to extract credentials from process")
  ELSE IF Atoi(out.port).err # "nil" THEN Failed("invalid port")
  ELSE Found(Credentials(Atoi(out.port).n, out.token, Https))

\* findCredentialsFromProcess: the result, and config.LeaguePath afterwards
findCredentialsFromProcess(os, cfg, out) ==
  IF os \notin {"windows", "darwin"}
  THEN [res |-> Failed("unsupported platform"), cfg |-> cfg]
  ELSE IF ~out.cmdOk THEN [res |-> Failed("command failed"), cfg |-> cfg]
  ELSE [res |-> parseProcessOutput(out),
        cfg |-> IF out.path # "" THEN [cfg EXCEPT !.LeaguePath = out.path] ELSE cfg]

\* what the health probe meets: the request cannot be built, the transport
\* fails, or the endpoint answers with a status
Probe(err, status) == [err |-> err, status |-> status]
NoProbe == Probe("", 0)
StatusOK == 200
ProbeOutcomes ==
  {Probe("request error", 0), Probe("transport error", 0)}
    \cup {Probe("nil", code) : code \in {200, 204, 301, 404, 503}}

\* faulty variant: any answer counts as healthy
checkLCUHealthAnyAnswer(probe) == probe.err = "nil"

\* checkLCUHealth: false when the request cannot be built or sent, else
\* resp.StatusCode == http.StatusOK
checkLCUHealth(probe) == probe.err = "nil" /\ probe.status = StatusOK

\* the findCredentials call. pc: "lockfile" (in the loop over the paths, at
\* index i), "process", "wait" (in waitForCredentials) or "done". given is
\* the configuration it was called with, tried what was consulted so far, in
\* order; scan is the last process listing, probe and healthy are from the
\* last iteration of the wait loop.
Resolve(given, pc, i, tried, res, polls, scan, probe, healthy) ==
  [given |-> given, pc |-> pc, i |-> i, tried |-> tried, res |-> res,
   polls |-> polls, scan |-> scan, probe |-> probe, healthy |-> healthy]

NoScan == ProcessOutput(FALSE, "", <<>>, <<>>)
Pending == Failed("")

\* the discovery that NewClient made is over
ResolverIdle ==
  /\ goos = "windows"
  /\ config = [LeaguePath |-> "", AwaitConnection |-> FALSE, PollInterval |-> 2,
              Debug |-> FALSE]
  /\ files = [p \in AllPaths |-> NoFile]
  /\ resolve = Resolve(config, "done", 1, <<>>,
                       Found(Credentials(1, <<"a">>, Https)),
                       0, NoScan, NoProbe, FALSE)

\* faulty variant: a file that is there but malformed ends the scan
TryLockfilePathAbortsOnMalformed ==
  /\ resolve.pc = "lockfile"
  /\ PossiblePaths(goos, config).err = "nil"
  /\ resolve.i <= Len(PossiblePaths(goos, config).paths)
  /\ LET path == PossiblePaths(goos, config).paths[resolve.i]
         r == IF files[path].exists THEN ParseLockfile(files[path].data)
              ELSE Failed("read failed")
     IN  resolve' = IF r.err = "nil"
                    THEN [resolve EXCEPT !.pc = "done", !.res = r,
                                         !.tried = Append(@, path)]
                    ELSE IF files[path].exists
                    THEN [resolve EXCEPT !.i = Len(PossiblePaths(goos, config).paths) + 1,
                                         !.tried = Append(@, path)]
                    ELSE [resolve EXCEPT !.i = @ + 1, !.tried = Append(@, path)]
  /\ UNCHANGED <<goos, config, files>>
  /\ UNCHANGED <<credentials, concurrent, gateway, handlers, wsConn, done, dialled,
                 listeners, goroutines, invoked, blocked, crashed, last,
                 nSub, nUnsub, nConn, nDisc, nFrames>>

\* one turn of the loop over possiblePaths
TryLockfilePath ==
  /\ resolve.pc = "lockfile"
  /\ PossiblePaths(goos, config).err = "nil"
  /\ resolve.i <= Len(PossiblePaths(goos, config).paths)
  /\ LET path == PossiblePaths(goos, config).paths[resolve.i]
         r == IF files[path].exists THEN ParseLockfile(files[path].data)
              ELSE Failed("read failed")
     IN  resolve' = IF r.err = "nil"
                    THEN [resolve EXCEPT !.pc = "done", !.res = r,
                                         !.tried = Append(@, path)]
                    ELSE [resolve EXCEPT !.i = @ + 1, !.tried = Append(@, path)]
  /\ UNCHANGED <<goos, config, files>>
  /\ UNCHANGED <<credentials, concurrent, gateway, handlers, wsConn, done, dialled,
                 listeners, goroutines, invoked, blocked, crashed, last,
                 nSub, nUnsub, nConn, nDisc, nFrames>>

\* findCredentialsFromLockfile returns an error: the platform is not known or
\* no path gave credentials; findCredentials goes on to the process method
LockfileFails ==
  /\ resolve.pc = "lockfile"
  /\ \/ PossiblePaths(goos, config).err # "nil"
     \/ resolve.i > Len(PossiblePaths(goos, config).paths)
  /\ resolve' = [resolve EXCEPT !.pc = "process"]
  /\ UNCHANGED <<goos, config, files>>
  /\ UNCHANGED <<credentials, concurrent, gateway, handlers, wsConn, done, dialled,
                 listeners, goroutines, invoked, blocked, crashed, last,
                 nSub, nUnsub, nConn, nDisc, nFrames>>

\* the process method of findCredentials, and what follows its failure:
\* waitForCredentials in await mode, where time.NewTicker panics on an
\* interval that is not positive, else the error
TryProcess(out) ==
  /\ resolve.pc = "process"
  /\ LET r == findCredentialsFromProcess(goos, config, out)
     IN  /\ config' = r.cfg
         /\ resolve' =
              IF r.res.err = "nil"
              THEN [resolve EXCEPT !.pc = "done", !.res = r.res, !.scan = out,
                                   !.tried = Append(@, "process")]
              ELSE IF config.AwaitConnection /\ config.PollInterval <= 0
              THEN [resolve EXCEPT !.pc = "done", !.scan = out,
                                   !.res = Failed("panic: non-positive interval for NewTicker"),
                                   !.tried = Append(@, "process")]
              ELSE IF config.AwaitConnection
              THEN [resolve EXCEPT !.pc = "wait", !.scan = out,
                                   !.tried = Append(@, "process")]
              ELSE [resolve EXCEPT !.pc = "done", !.scan = out,
                                   !.res = Failed("no running LCU instance found"),
                                   !.tried = Append(@, "process")]
  /\ UNCHANGED <<goos, files>>
  /\ UNCHANGED <<credentials, concurrent, gateway, handlers, wsConn, done, dialled,
                 listeners, goroutines, invoked, blocked, crashed, last,
                 nSub, nUnsub, nConn, nDisc, nFrames>>

\* faulty variant: credentials are returned as soon as they are extracted
PollWithoutHealthCheck(out, probe) ==
  /\ resolve.pc = "wait"
  /\ LET r == findCredentialsFromProcess(goos, config, out)
     IN  /\ config' = r.cfg
         /\ resolve' =
              IF r.res.err = "nil"
              THEN [resolve EXCEPT !.pc = "done", !.res = r.res, !.polls = 1,
                                   !.scan = out, !.probe = probe,
                                   !.healthy = checkLCUHealth(probe)]
              ELSE [resolve EXCEPT !.polls = 1, !.scan = out, !.probe = NoProbe,
                                   !.healthy = FALSE]
  /\ UNCHANGED <<goos, files>>
  /\ UNCHANGED <<credentials, concurrent, gateway, handlers, wsConn, done, dialled,
                 listeners, goroutines, invoked, blocked, crashed, last,
                 nSub, nUnsub, nConn, nDisc, nFrames>>

\* one tick of waitForCredentials: the process method, then the health check
\* of what it found; polls is 1 once the loop has gone round
Poll(out, probe) ==
  /\ resolve.pc = "wait"
  /\ LET r == findCredentialsFromProcess(goos, config, out)
     IN  /\ config' = r.cfg
         /\ resolve' =
              IF r.res.err # "nil"
              THEN [resolve EXCEPT !.polls = 1, !.scan = out, !.probe = NoProbe,
                                   !.healthy = FALSE]
              ELSE IF checkLCUHealth(probe)
              THEN [resolve EXCEPT !.pc = "done", !.res = r.res, !.polls = 1,
                                   !.scan = out, !.probe = probe, !.healthy = TRUE]
              ELSE [resolve EXCEPT !.polls = 1, !.scan = out, !.probe = probe,
                                   !.healthy = FALSE]
  /\ UNCHANGED <<goos, files>>
  /\ UNCHANGED <<credentials, concurrent, gateway, handlers, wsConn, done, dialled,
                 listeners, goroutines, invoked, blocked, crashed, last,
                 nSub, nUnsub, nConn, nDisc, nFrames>>

\* ------------------------------------------------------------------ Request
\* A body is the bytes a reader has yet to give; Request may be called
\* without one. The reader is one of those whose length http.NewRequest
\* takes for the Content-Length (bytes.Reader, bytes.Buffer, strings.Reader),
\* or any other io.Reader.
Bytes == UNION { [1..n -> {"x", "y"}] : n \in 0..2 }
Bodies == {NoBody} \cup {Body(d) : d \in Bytes}
ReaderKinds == {"bytes.Reader", "io.Reader"}

\* how the call goes: the endpoint does not join to a URL, the method is not
\* one, the transport fails, or the service answers
RequestOutcomes == {"invalid endpoint", "invalid method", "transport error", "nil"}

\* what a Request call comes to: the error it returns, the body the service
\* received (sent says whether the request went out at all) and what the
\* caller reads from resp.Body. The response stream gives `cut` bytes of
\* `response` and then fails, or all of them when cut is their number.
\*  - http.NewRequest keeps the caller's reader as req.Body;
\*  - with Debug the reader is read to its end for the log, and the fresh
\*    reader over the logged bytes is assigned to the parameter `body`, which
\*    nothing reads afterwards;
\*  - httpClient.Do writes what req.Body still has to give; when the
\*    Content-Length is known and differs from that, the transport gives up;
\*  - with Debug the response is read to its end, the read error dropped, and
\*    resp.Body replaced by a reader over what was read.
DoRequest(debug, body, kind, outcome, response, cut) ==
  LET contentLength == IF body.nil THEN 0
                       ELSE IF kind = "bytes.Reader" THEN Len(body.data) ELSE 0 - 1
      left == IF debug /\ ~body.nil THEN <<>> ELSE body.data
      arrived == SubSeq(response, 1, cut)
      unsent == [err |-> outcome, sent |-> FALSE, received |-> <<>>,
                 read |-> Stream(<<>>, FALSE)]
  IN  IF outcome \in {"invalid endpoint", "invalid method"} THEN unsent
      ELSE IF contentLength > 0 /\ Len(left) # contentLength
      THEN [unsent EXCEPT !.err = "http: ContentLength with Body length 0"]
      ELSE IF outcome = "transport error" THEN unsent
      ELSE [err |-> "nil", sent |-> TRUE, received |-> left,
            read |-> IF debug THEN Stream(arrived, FALSE)
                     ELSE Stream(arrived, cut < Len(response))]

\* c.Request(method, endpoint, body), and so Get, Post, Put and Delete
Request(body, kind, outcome, response, cut) ==
  /\ ~crashed
  /\ gateway' = [called |-> TRUE, debug |-> config.Debug,
                 args |-> RequestArgs(body, kind, outcome, response, cut),
                 out |-> DoRequest(config.Debug, body, kind, outcome, response, cut)]
  /\ UNCHANGED <<credentials, concurrent, resolver, handlers, wsConn, done,
                 dialled, listeners, goroutines, invoked, blocked, crashed,
                 last, nSub, nUnsub, nConn, nDisc, nFrames>>

\* ------------------------------------------------------------ specification
\* the client after NewClient
Init == InitClient /\ ResolverIdle

\* The API calls, with every input and every outcome of the socket writes.
NextApi ==
  \/ \E e \in ApiTopics, h \in Handlers, ts \in FilterArgs, ok1, ok2 \in BOOLEAN :
       Subscribe(e, h, ts, ok1, ok2)
  \/ \E h \in Handlers, ok1, ok2 \in BOOLEAN : SubscribeToAll(h, ok1, ok2)
  \/ \E e \in Keys, ok \in BOOLEAN : Unsubscribe(e, ok)
  \/ \E o \in ConnectOutcomes : Connect(o)
  \/ Disconnect

\* The listener while the connection is up.
NextListener ==
  \/ \E i \in DOMAIN listeners : ListenerSelect(i)
  \/ \E i \in DOMAIN listeners : ListenerReadFails(i)
  \/ \E i \in DOMAIN listeners, m \in Frames : ListenerRead(i, m)
  \/ \E i \in DOMAIN listeners : ListenerHandleEvent(i)
  \/ \E i \in DOMAIN listeners : ListenerSpawn(i)

\* The handler goroutines, with every outcome of the user's handler.
NextHandlers ==
  \E g \in BagToSet(goroutines), o \in HandlerOutcomes : RunHandler(g, o)

\* The listener's ways out after Disconnect.
NextListenerStop ==
  \/ \E i \in DOMAIN listeners : ListenerStop(i)
  \/ \E i \in DOMAIN listeners : ListenerReadNil(i)

\* The API calls of the router scenarios: accepted filters, writes that succeed
\* whenever the socket is there, one connection that comes up, no Disconnect.
NextRouterApi ==
  \/ \E e \in Topics, h \in Handlers : Subscribe(e, h, <<"Update">>, TRUE, TRUE)
  \/ \E h \in Handlers : SubscribeToAll(h, TRUE, TRUE)
  \/ \E e \in RouterUnsubscribes : Unsubscribe(e, TRUE)
  \/ listeners = <<>> /\ Connect("nil")

Next == NextApi \/ NextListener \/ NextListenerStop \/ NextHandlers

NextRouter == NextRouterApi \/ NextListener \/ NextHandlers

\* the whole client
Spec == Init /\ [][Next]_vars

\* the API calls alone: registry, send path, connection handle
SpecApi == Init /\ [][NextApi]_vars

\* the event router: registrations, listener, handler goroutines
SpecRouter == Init /\ [][NextRouter]_vars

\* the frames of the lifecycle scenarios: an event, an event whose body has no
\* eventType, and a message that is no event
LifecycleFrames ==
  { EventFrame(CatchAll, "Update", "/a", "d1"),
    Frame(3, TRUE, OpEvent, TRUE, CatchAll, TRUE, FALSE, "", TRUE, "/a", "d1"),
    Frame(1, TRUE, 0, FALSE, "", FALSE, FALSE, "", FALSE, "", "") }

\* The calls of the lifecycle scenarios: one subscription, Connect with every
\* outcome, Disconnect.
NextLifecycleApi ==
  \/ Subscribe("/a", "h1", <<"Update">>, TRUE, TRUE)
  \/ \E o \in ConnectOutcomes : Connect(o)
  \/ Disconnect

\* The listener steps that depend on the goroutine being scheduled only, and
\* the return of a read on a socket that Disconnect closed.
ListenerProgress ==
  \/ \E i \in DOMAIN listeners : ListenerStop(i)
  \/ \E i \in DOMAIN listeners : ListenerSelect(i)
  \/ \E i \in DOMAIN listeners : ListenerHandleEvent(i)
  \/ \E i \in DOMAIN listeners : ListenerSpawn(i)
  \/ \E i \in DOMAIN listeners : ListenerReadNil(i)
  \/ \E i \in DOMAIN listeners : wsConn = 0 /\ ListenerReadFails(i)

\* The steps that depend on the peer: a frame arrives, the transport fails.
ListenerInput ==
  \/ \E i \in DOMAIN listeners : ListenerReadFails(i)
  \/ \E i \in DOMAIN listeners, m \in LifecycleFrames : ListenerRead(i, m)

NextLifecycle ==
  \/ NextLifecycleApi
  \/ ListenerProgress
  \/ ListenerInput
  \/ \E g \in BagToSet(goroutines) : RunHandler(g, "returns")

\* connection lifecycle and listener; a listener goroutine that can run does run
SpecLifecycle == Init /\ [][NextLifecycle]_vars /\ WF_vars(ListenerProgress)

\* Subscribe and Unsubscribe calls running concurrently on a client that gets
\* connected; connectWebSocket stores the handle under c.wsLock.Lock(), so
\* only while no call holds the read lock
NextSend ==
  \/ \E e \in CallTopics : CallStart("Subscribe", e)
  \/ \E e \in CallTopics : CallStart("Unsubscribe", e)
  \/ \E t \in DOMAIN calls : SubscribeLock(t)
  \/ \E t \in DOMAIN calls : UnsubscribeDelete(t)
  \/ \E t \in DOMAIN calls : SendBegin(t)
  \/ \E t \in DOMAIN calls, writeOk \in BOOLEAN : SendEnd(t, writeOk)
  \/ wsLock = {} /\ Connect("nil")

SpecSend == Init /\ [][NextSend]_vars

\* the lockfile method on one file: a macOS build, no configured path, and
\* any content in the one candidate file
InitLockfile ==
  /\ InitClient
  /\ goos = "darwin"
  /\ config = [LeaguePath |-> "", AwaitConnection |-> FALSE, PollInterval |-> 2,
              Debug |-> FALSE]
  /\ \E data \in LockfileContents :
       files = [p \in AllPaths |-> IF p = "app" THEN File(data) ELSE NoFile]
  /\ resolve = Resolve(config, "lockfile", 1, <<>>, Pending, 0, NoScan, NoProbe, FALSE)

NextLockfile ==
  \/ TryLockfilePath
  \/ LockfileFails

SpecLockfile == InitLockfile /\ [][NextLockfile]_vars

\* what a lockfile path can hold: nothing, a file of four fields, a file of
\* five fields whose third is no number, or one of two well-formed files with
\* different ports and passwords
FileStates ==
  { NoFile,
    File(<<"a", ":", "1", ":", "1", ":", "a">>),
    File(<<"a", ":", "1", ":", "a", ":", "a", ":", "a">>),
    File(<<"a", ":", "1", ":", "1", ":", "a", ":", "a">>),
    File(<<"a", ":", "1", ":", "1", "1", ":", "-", ":", "a">>) }

\* findCredentials is called: any platform, a path configured or not, await
\* mode on or off, anything in the files it may look at
InitResolve ==
  /\ InitClient
  /\ goos \in Platforms
  /\ config \in [LeaguePath : {"", "set"}, AwaitConnection : BOOLEAN,
                PollInterval : {0, 2}, Debug : {FALSE}]
  /\ \E look \in [Range(PossiblePaths(goos, config).paths) -> FileStates] :
       files = [p \in AllPaths |-> IF p \in DOMAIN look THEN look[p] ELSE NoFile]
  /\ resolve = Resolve(config, "lockfile", 1, <<>>, Pending, 0, NoScan, NoProbe, FALSE)

NextResolve ==
  \/ TryLockfilePath
  \/ LockfileFails
  \/ \E out \in ProcessOutputs : TryProcess(out)
  \/ \E out \in ProcessOutputs, probe \in ProbeOutcomes : Poll(out, probe)

SpecResolve == InitResolve /\ [][NextResolve]_vars

\* Request calls on a client built with or without Debug
InitRequest ==
  /\ InitClient
  /\ goos = "windows"
  /\ config \in [LeaguePath : {""}, AwaitConnection : {FALSE}, PollInterval : {2},
                 Debug : BOOLEAN]
  /\ files = [p \in AllPaths |-> NoFile]
  /\ resolve = Resolve(config, "done", 1, <<>>,
                       Found(Credentials(1, <<"a">>, Https)),
                       0, NoScan, NoProbe, FALSE)

NextRequest ==
  \E body \in Bodies, kind \in ReaderKinds, outcome \in RequestOutcomes,
     response \in Bytes :
    \E cut \in 0..Len(response) : Request(body, kind, outcome, response, cut)

SpecRequest == InitRequest /\ [][NextRequest]_vars

\* The client in use: the calls and the listener of the lifecycle scenarios,
\* Unsubscribe, and requests with and without a body that are answered or fail
\* in the transport.
NextClient ==
  \/ NextLifecycle
  \/ \E ok \in BOOLEAN : Unsubscribe("/a", ok)
  \/ \E body \in {NoBody, Body(<<"x">>)}, outcome \in {"transport error", "nil"} :
       Request(body, "bytes.Reader", outcome, <<"y">>, 1)

SpecClient == Init /\ [][NextClient]_vars

\* The calls and the listener on the two locks: Subscribe, Unsubscribe and
\* Disconnect calls under way at once on a client that gets connected, the
\* listener dispatching event frames, handlers running; socket writes
\* complete, with either outcome.
CallStep(t) ==
  \/ SubscribeLock(t)
  \/ UnsubscribeDelete(t)
  \/ SendBegin(t)
  \/ \E writeOk \in BOOLEAN : SendEnd(t, writeOk)
  \/ DisconnectCloseDone(t)
  \/ DisconnectLock(t)
  \/ DisconnectClose(t)

NextLocks ==
  \/ CallStart("Subscribe", "/a")
  \/ CallStart("Unsubscribe", "/a")
  \/ DisconnectStart
  \/ \E t \in DOMAIN calls : CallStep(t)
  \/ (wsLock = {} /\ \A u \in DOMAIN calls : calls[u].pc # "wswait") /\ Connect("nil")
  \/ ListenerProgress
  \/ \E i \in DOMAIN listeners : ListenerRead(i, EventFrame(CatchAll, "Update", "/a", "d1"))
  \/ \E g \in BagToSet(goroutines) : RunHandler(g, "returns")

SpecLocks == Init /\ [][NextLocks]_vars

\* ------------------------------------------------------------------ claims
SubscribeCalled == nSub' = nSub + 1
UnsubscribeCalled == nUnsub' = nUnsub + 1

IsPrefix(s, t) == Len(s) <= Len(t) /\ \A i \in 1..Len(s) : s[i] = t[i]

\* C1: a Subscribe call with no event types returns an error, leaves the
\* registry as it was and writes nothing to the socket, connected or not.
C1_EmptyFilterRejected ==
  [][(SubscribeCalled /\ last'.types = <<>>)
       => (last'.err # "nil" /\ handlers' = handlers /\ last'.sent = <<>>)]_vars

C1_Witness ==
  /\ last.op = "Subscribe" /\ last.types = <<>> /\ last.err = "no event type"
  /\ wsConn # 0
  /\ handlers[CatchAll] # <<>>

\* C2: a Subscribe call whose event types include one outside
\* {Create, Update, Delete}, even next to valid ones, returns an error, registers
\* nothing and writes nothing to the socket.
C2_InvalidFilterRejected ==
  [][(SubscribeCalled /\ \E i \in 1..Len(last'.types) :
                            last'.types[i] \notin {"Create", "Update", "Delete"})
       => (last'.err # "nil" /\ handlers' = handlers /\ last'.sent = <<>>)]_vars

C2_Witness ==
  /\ last.op = "Subscribe" /\ last.types = <<"Update", "Bogus">>
  /\ last.err = "invalid event type"
  /\ wsConn # 0

\* C4: after a successful Subscribe(topic, h, F) the wrapper of h is the newest
\* entry under topic and under "OnJsonApiEvent", behind the entries that were
\* there, and every key keeps the entries it had.
C4_RegisteredUnderBothKeys ==
  [][(SubscribeCalled /\ last'.err = "nil")
       => LET w == [h |-> last'.h, types |-> last'.types, topic |-> last'.topic]
              t == last'.topic
          IN  /\ \A k \in Keys : IsPrefix(handlers[k], handlers'[k])
              /\ \A k \in Keys \ {t, "OnJsonApiEvent"} : handlers'[k] = handlers[k]
              /\ \A k \in {t, "OnJsonApiEvent"} :
                   /\ Len(handlers'[k]) > Len(handlers[k])
                   /\ \A i \in (Len(handlers[k]) + 1)..Len(handlers'[k]) :
                        handlers'[k][i] = w]_vars

C4_Witness ==
  /\ last.op = "Subscribe" /\ last.err = "nil"
  /\ last.topic # CatchAll
  /\ Len(handlers[last.topic]) = 2
  /\ Len(handlers[CatchAll]) = 2
  /\ handlers[last.topic][2].h = last.h
  /\ handlers[last.topic][2].types = last.types
  /\ handlers[last.topic][1] # handlers[last.topic][2]

\* C5: a successful Subscribe(topic) writes exactly [5, topic] and then
\* [5, "OnJsonApiEvent"]; a successful Unsubscribe(topic) writes exactly
\* [6, topic].
C5_WireMessages ==
  [][/\ (SubscribeCalled /\ last'.err = "nil")
          => last'.sent = << [conn |-> wsConn, op |-> 5, topic |-> last'.topic],
                             [conn |-> wsConn, op |-> 5, topic |-> "OnJsonApiEvent"] >>
     /\ (UnsubscribeCalled /\ last'.err = "nil")
          => last'.sent = << [conn |-> wsConn, op |-> 6, topic |-> last'.topic] >>]_vars

C5_Witness ==
  /\ last.op = "Subscribe" /\ last.err = "nil"
  /\ last.topic = "/a"
  /\ Len(last.sent) = 2
  /\ nUnsub = 1

\* C6: Unsubscribe(topic) empties the registry entry of topic and changes no
\* other key; for a topic other than "OnJsonApiEvent" the event-bus entries stay
\* and no [6, "OnJsonApiEvent"] is written.
C6_UnsubscribeFrame ==
  [][UnsubscribeCalled
       => LET t == last'.topic
          IN  /\ handlers'[t] = <<>>
              /\ \A k \in Keys \ {t} : handlers'[k] = handlers[k]
              /\ t # "OnJsonApiEvent"
                   => \A i \in 1..Len(last'.sent) :
                        ~(last'.sent[i].op = 6 /\ last'.sent[i].topic = "OnJsonApiEvent")]_vars

\* the event-bus entry outlives the Unsubscribe of the only topic subscribed
C6_Witness ==
  /\ last.op = "Unsubscribe" /\ last.err = "nil"
  /\ last.topic # CatchAll
  /\ nSub = 1
  /\ \A k \in Keys \ {CatchAll} : handlers[k] = <<>>
  /\ handlers[CatchAll] # <<>>

Count(seq, x) == Cardinality({i \in 1..Len(seq) : seq[i] = x})

Started(g) == CopiesIn(g, goroutines') - CopiesIn(g, goroutines)

\* C3: a wrapper made by Subscribe with event types F, handed an event E (a
\* decoded event or the listener's raw-message event), goes on to call the
\* user's handler iff E.EventType is in F; and that call is then made with E.
C3_FilterIff ==
  [][/\ \A i \in DOMAIN listeners :
          (listeners[i].pc = "spawn" /\ listeners'[i].pc # "spawn")
            => \A w \in Range(listeners[i].snap) :
                 Started([w |-> w, ev |-> listeners[i].ev])
                   = IF listeners[i].ev.EventType \in Range(w.types)
                     THEN Count(listeners[i].snap, w) ELSE 0
     /\ \A i \in DOMAIN listeners, m \in Frames :
          (listeners[i].pc = "read" /\ nFrames' = nFrames + 1 /\ m.n > 0)
            => \A w \in Range(handlers["OnJsonApiEvent"]) :
                 LET raw == [EventType |-> "WebSocketMessage", URI |-> "OnJsonApiEvent",
                             Data |-> "", Message |-> m]
                 IN  (Started([w |-> w, ev |-> raw]) > 0)
                       <=> ("WebSocketMessage" \in Range(w.types))
     /\ \A g \in BagToSet(goroutines) :
          (CopiesIn(g, goroutines') < CopiesIn(g, goroutines))
            => /\ g.ev.EventType \in Range(g.w.types)
               /\ invoked' = invoked (+) SetToBag({[h |-> g.w.h, ev |-> g.ev]})]_vars

\* an Update was let through to a handler, and the listener is about to hand a
\* Create to a wrapper registered for Update only
C3_Witness ==
  /\ \E c \in BagToSet(invoked) : c.ev.EventType = "Update"
  /\ \E i \in DOMAIN listeners :
       /\ listeners[i].pc = "spawn"
       /\ listeners[i].ev.EventType = "Create"
       /\ \E w \in Range(listeners[i].snap) : w.types = <<"Update">>
  /\ handlers[CatchAll] # <<>>

\* C7: for a well-formed event frame the handlers taken for the decoded event
\* are, on channel "OnJsonApiEvent", those under the event's uri followed by those
\* under "/", and on any other channel those under the channel alone; only these
\* are started, with the decoded event.
C7_Resolution ==
  [][\A i \in DOMAIN listeners :
       /\ (listeners[i].pc = "event" /\ listeners'[i].pc = "spawn")
            => LET m == listeners[i].msg
               IN  /\ listeners'[i].ev = [EventType |-> m.eventType, URI |-> m.uri,
                                          Data |-> m.data, Message |-> NoFrame]
                   /\ listeners'[i].snap =
                        IF m.chan = "OnJsonApiEvent"
                        THEN handlers[m.uri] \o handlers["/"]
                        ELSE handlers[m.chan]
       /\ (listeners[i].pc = "spawn" /\ listeners'[i].pc # "spawn")
            => \A g \in BagToSet(goroutines') :
                 Started(g) > 0 => (g.ev = listeners[i].ev
                                    /\ g.w \in Range(listeners[i].snap))]_vars

\* a bus event for "/a" that takes the handler under "/a" and then the one
\* under "/"
C7_Witness ==
  \E i \in DOMAIN listeners :
    /\ listeners[i].pc = "spawn"
    /\ listeners[i].msg.chan = CatchAll
    /\ listeners[i].msg.uri = "/a"
    /\ Len(listeners[i].snap) = 2
    /\ listeners[i].snap[1] \in Range(handlers["/a"])
    /\ listeners[i].snap[2] \in Range(handlers[RootTopic])
    /\ listeners[i].snap[1] # listeners[i].snap[2]

\* an invocation still owed: a started handler goroutine for a decoded event
\* whose uri is the topic its wrapper was subscribed for
Due(g) == g.ev.Message = NoFrame /\ g.w.topic = g.ev.URI

\* C8: when the listener dispatches a bus event with uri T and type t, a
\* goroutine carrying exactly the decoded event is started for every wrapper
\* made by Subscribe(T, h, F) with t in F, and for no wrapper made by a
\* Subscribe for a topic other than T and "/"; and the invocations so started
\* do get made: the process never stops while one of them is still owed.
C8_DueHandlersInvoked ==
  [][/\ \A i \in DOMAIN listeners :
          (/\ listeners[i].pc = "spawn" /\ listeners'[i].pc # "spawn"
           /\ listeners[i].msg.chan = "OnJsonApiEvent")
            => LET m == listeners[i].msg
                   e == [EventType |-> m.eventType, URI |-> m.uri,
                         Data |-> m.data, Message |-> NoFrame]
               IN  /\ \A w \in Range(listeners[i].snap) :
                        (w.topic = m.uri /\ m.eventType \in Range(w.types))
                          => Started([w |-> w, ev |-> e]) > 0
                   /\ \A g \in BagToSet(goroutines') :
                        Started(g) > 0 => g.w.topic \in {m.uri, "/"}
     /\ crashed' => \A g \in BagToSet(goroutines') : ~Due(g)]_vars

\* C9: a handler that panics is caught where it is invoked: the process stays up
\* (and with it the listener and the handlers of the same event).
C9_HandlerPanicContained == ~crashed

\* any step of listener i
ListenerStep(i) ==
  \/ ListenerStop(i)
  \/ ListenerSelect(i)
  \/ ListenerReadFails(i)
  \/ \E m \in Frames : ListenerRead(i, m)
  \/ ListenerHandleEvent(i)
  \/ ListenerSpawn(i)

\* a listener that has not returned can take its next step (it reads any frame
\* the socket delivers, it dispatches the frame it holds), and every handler
\* goroutine already started can run
NothingHeldUp ==
  /\ \A i \in DOMAIN listeners :
       /\ listeners[i].pc # "exited" => ENABLED ListenerStep(i)
       /\ (listeners[i].pc = "read" /\ wsConn # 0 /\ nFrames < MaxFrames)
            => \A m \in Frames : ENABLED ListenerRead(i, m)
  /\ \A g \in BagToSet(goroutines) : ENABLED RunHandler(g, "returns")

\* C10: once a handler call is stuck, the listener still reads and dispatches
\* every later frame and every other handler goroutine still runs.
C10_HandlersNeverBlock == blocked > 0 => NothingHeldUp

\* the same while the process is up: a stuck handler by itself holds up nothing
HandlersNeverBlockWhileUp == (blocked > 0 /\ ~crashed) => NothingHeldUp

\* an opcode-8 frame that handleEvent cannot decode: too short, a channel that
\* is no string, a body that is no object, or an object without a string
\* eventType or uri
Malformed(m) ==
  \/ m.n < 3
  \/ ~m.chanStr
  \/ ~m.bodyObj
  \/ ~m.hasType
  \/ ~m.hasUri

\* C11: a malformed opcode-8 frame is dropped: the listener that holds it starts
\* no handler for it, stays alive and goes back to read the next frame, and the
\* process stays up.
C11_MalformedFrameDropped ==
  [][\A i \in DOMAIN listeners :
       (/\ listeners[i].pc = "event"
        /\ Malformed(listeners[i].msg)
        /\ listeners'[i] # listeners[i])
         => /\ listeners'[i].pc = "select"
            /\ goroutines' = goroutines
            /\ crashed' = crashed]_vars

DisconnectCalled == nDisc' = nDisc + 1

\* C14: a Disconnect call on a client that was disconnected before completes
\* without failure and leaves the socket handle nil, the stop signal raised and
\* the registry as they were.
C14_DisconnectIdempotent ==
  [][(DisconnectCalled /\ done)
       => /\ last'.err = "nil"
          /\ done'
          /\ wsConn' = 0
          /\ handlers' = handlers]_vars

\* the listener goroutines that have not returned
Alive == {i \in DOMAIN listeners : listeners[i].pc # "exited"}

\* C17: a listener is started only by a Connect call whose handshake succeeded,
\* and at no time is more than one listener alive (so that the socket has one
\* reader).
C17_SingleListener ==
  [][/\ Len(listeners') > Len(listeners)
          => (last'.op = "Connect" /\ last'.err = "nil" /\ wsConn' # 0)
     /\ Cardinality({i \in DOMAIN listeners' : listeners'[i].pc # "exited"}) <= 1]_vars

\* a handler goroutine g runs in this step
Runs(g) == CopiesIn(g, goroutines') < CopiesIn(g, goroutines)

\* no registration is lost: a key keeps its entries, in order, in every step
\* but an Unsubscribe of that key
NoLostSubscribe ==
  \A k \in Keys :
    \/ IsPrefix(handlers[k], handlers'[k])
    \/ UnsubscribeCalled /\ last'.topic = k

ConnectCalled == nConn' = nConn + 1

\* C16: a Connect call probes first and dials only after the probe; a failed
\* probe means no dial; and a call that returns an error leaves the socket
\* handle, the listeners and the rest of the client as they were.
C16_ConnectAllOrNothing ==
  [][ConnectCalled
       => /\ Len(last'.sent) > 0 /\ last'.sent[1] = "probe"
          /\ \A j \in 1..Len(last'.sent) : last'.sent[j] = "dial" => j > 1
          /\ last'.err = "probe failed"
               => \A j \in 1..Len(last'.sent) : last'.sent[j] # "dial"
          /\ last'.err # "nil"
               => /\ wsConn' = wsConn
                  /\ listeners' = listeners
                  /\ handlers' = handlers
                  /\ done' = done]_vars

\* a handshake that failed after a probe that succeeded, on a client that has
\* no socket and no listener
C16_Witness ==
  /\ last.op = "Connect" /\ last.err = "handshake failed"
  /\ last.sent = <<"probe", "dial">>
  /\ wsConn = 0
  /\ listeners = <<>>
  /\ nConn = 2

\* listener i gets a read error in this step
ReadErrorAt(i) == listeners[i].pc = "read" /\ listeners'[i].why = "read error"

ConnectionLost ==
  /\ ~done /\ ~crashed
  /\ Alive = {}
  /\ \E i \in DOMAIN listeners : listeners[i].why = "read error"

\* a step the library takes by itself: a listener or a handler goroutine, no
\* call of the application
LibraryStep ==
  \/ ListenerProgress
  \/ ListenerInput
  \/ \E g \in BagToSet(goroutines) : RunHandler(g, "returns")

\* a library step that dials, stores a handle or starts a listener
Reconnects ==
  /\ LibraryStep
  /\ \/ dialled' # dialled
     \/ wsConn' # wsConn
     \/ Len(listeners') # Len(listeners)

\* C13: when the connection is lost the library re-establishes it by itself:
\* as long as it has steps of its own to take, one of them leads to a new
\* connection; it never comes to rest with the connection lost.
C13_AutoReconnect ==
  ConnectionLost => (ENABLED LibraryStep /\ (goroutines = EmptyBag => ENABLED Reconnects))

\* the steps of listener i that need nothing from the peer
ListenerProgressOf(i) ==
  \/ ListenerStop(i)
  \/ ListenerSelect(i)
  \/ ListenerHandleEvent(i)
  \/ ListenerSpawn(i)
  \/ ListenerReadNil(i)
  \/ wsConn = 0 /\ ListenerReadFails(i)

\* C15: a Disconnect on a connected client leaves the socket closed and the
\* handle cleared, and once the stop signal is raised every listener still
\* alive, wherever it is, has a step of its own that takes it towards its end:
\* its termination waits for nothing the peer has to send.
C15_ListenerStopsAfterDisconnect ==
  /\ (last.op = "Disconnect" /\ last.err = "nil") => (done /\ wsConn = 0)
  /\ done => \A i \in Alive : ENABLED ListenerProgressOf(i)

\* up to the next Connect every listener does terminate: while the handle
\* stays cleared, the stop signal leads to no listener alive
ListenerStopsUnlessReconnected == done ~> (Alive = {} \/ wsConn # 0)

\* C20: the credentials are held until Disconnect, which discards them, and a
\* Connect that follows a Disconnect resolves them anew, as its first step,
\* before the probe and the handshake.
C20_CredentialsPerConnection ==
  [][/\ (DisconnectCalled /\ last'.err = "nil") => credentials' = 0
     /\ (ConnectCalled /\ done)
          => /\ credentials' > 0 /\ credentials' # credentials
             /\ Head(last'.sent) = "resolve"]_vars

\* what the client does instead: the credentials resolved at construction are
\* the ones it holds for as long as it lives
CredentialsResolvedOnce == credentials = 1

\* the calls that are inside WriteJSON
Writing == { t \in DOMAIN calls : calls[t].pc = "write" }

\* C18: whatever the interleaving of concurrent Subscribe and Unsubscribe
\* calls, at most one of them is writing a message to the socket at a time.
C18_WritesSerialized == Cardinality(Writing) <= 1

\* what the locks do give: c.eventMux, held by Subscribe across its sends,
\* keeps two Subscribe calls from writing at once, and a call inside
\* WriteJSON holds the read lock of c.wsLock
SubscribeWritesSerialized ==
  /\ Cardinality({ t \in Writing : calls[t].op = "Subscribe" }) <= 1
  /\ Writing = wsLock
  /\ \A t \in Writing : calls[t].op = "Subscribe" => eventMux = t

\* C21: a Connect or a Disconnect call, whatever its outcome, leaves the
\* registry as it was: entries outlive the connection they were made on.
C21_RegistryOutlivesConnection ==
  [][(ConnectCalled \/ DisconnectCalled) => handlers' = handlers]_vars

\* a handler registered before a Disconnect is there after the Connect that
\* followed it
C21_Witness ==
  /\ done
  /\ last.op = "Connect" /\ last.err = "nil"
  /\ \E k \in Keys : handlers[k] # <<>>

\* the positions of the colons in s, and the k-th of them
ColonsAt(s) == { i \in 1..Len(s) : s[i] = ":" }
NthColon(s, k) ==
  CHOOSE i \in ColonsAt(s) : Cardinality({ j \in ColonsAt(s) : j <= i }) = k

\* the k-th of the five colon-separated fields of s
FieldOf(s, k) ==
  LET lo == IF k = 1 THEN 0 ELSE NthColon(s, k - 1)
      hi == IF k = 5 THEN Len(s) + 1 ELSE NthColon(s, k)
  IN  SubSeq(s, lo + 1, hi - 1)

\* f is written as a decimal integer, with or without sign, and its value is
\* one an int holds
IsInteger(f) ==
  LET signed == f # <<>> /\ f[1] \in {"+", "-"}
      d == IF signed THEN SubSeq(f, 2, Len(f)) ELSE f
      sig == Significant(d)
  IN  /\ Len(d) >= 1
      /\ \A i \in 1..Len(d) : d[i] \in {"0", "1", "9"}
      /\ \/ Len(sig) < IntDigits
         \/ Len(sig) = IntDigits /\ ~Above(sig, 1, signed /\ f[1] = "-")

\* the number that the digits of d stand for
RECURSIVE PlaceValue(_)
PlaceValue(d) ==
  IF d = <<>> THEN 0
  ELSE Digit[d[Len(d)]] + 10 * PlaceValue(SubSeq(d, 1, Len(d) - 1))

IntegerValue(f) ==
  IF f[1] = "-" THEN 0 - PlaceValue(Significant(SubSeq(f, 2, Len(f))))
  ELSE IF f[1] = "+" THEN PlaceValue(Significant(SubSeq(f, 2, Len(f))))
  ELSE PlaceValue(Significant(f))

\* C24: once the one lockfile has been read, the lockfile method has returned
\* credentials exactly when the content has five colon-separated fields of
\* which the third is an integer, and then port, password and protocol are
\* the third, fourth and fifth field; in every other case it has no
\* credentials and ends in its error.
C24_LockfileParsing ==
  resolve.tried = <<"app">> =>
    LET data == files["app"].data
    IN  IF Cardinality(ColonsAt(data)) = 4 /\ IsInteger(FieldOf(data, 3))
        THEN /\ resolve.pc = "done"
             /\ resolve.res = Found(Credentials(IntegerValue(FieldOf(data, 3)),
                                                FieldOf(data, 4), FieldOf(data, 5)))
        ELSE /\ resolve.res.creds = NoCredentials
             /\ resolve.res.err # "nil"
             /\ resolve.pc = "process" \/ ENABLED LockfileFails

\* a content of five fields was accepted, its port not a single digit
C24_Witness ==
  /\ resolve.tried = <<"app">>
  /\ resolve.pc = "done"
  /\ resolve.res.creds.port = 11
  /\ resolve.res.creds.password # <<>>

\* the platforms for which the lockfile method has candidate paths
SupportedPlatforms == {"windows", "darwin", "linux"}

\* the strategies in the order of the claim: the configured path if there is
\* one, the platform's candidates, the process listing
StrategyOrder ==
  (IF resolve.given.LeaguePath # "" THEN <<CustomPath>> ELSE <<>>)
    \o PossiblePaths(goos, [resolve.given EXCEPT !.LeaguePath = ""]).paths
    \o <<"process">>

\* the strategy succeeds: the file is there and well-formed, or the process
\* listing just made gave both flags
Succeeds(src) ==
  IF src = "process"
  THEN findCredentialsFromProcess(goos, resolve.given, resolve.scan).res.err = "nil"
  ELSE /\ files[src].exists
       /\ Cardinality(ColonsAt(files[src].data)) = 4
       /\ IsInteger(FieldOf(files[src].data, 3))

\* the credentials the strategy has to offer
CredentialsOf(src) ==
  IF src = "process" THEN parseProcessOutput(resolve.scan).creds
  ELSE Credentials(IntegerValue(FieldOf(files[src].data, 3)),
                   FieldOf(files[src].data, 4), FieldOf(files[src].data, 5))

UnsupportedPlatformFails ==
  (goos \notin SupportedPlatforms /\ resolve.pc = "done")
    => (resolve.polls = 0 /\ resolve.res.err # "nil" /\ resolve.tried = <<"process">>)

\* C23: a turn of the wait loop ends the call only with the credentials it
\* extracted itself and found healthy; a turn whose extraction or health check
\* fails returns nothing and leaves the loop waiting for the next tick; and
\* the loop never ends in an error, so the caller stays blocked until a turn
\* succeeds.
C23_AwaitLoop ==
  [][resolve.pc = "wait" =>
       LET scanned == findCredentialsFromProcess(goos, config, resolve'.scan).res
       IN  /\ resolve'.pc \in {"wait", "done"}
           /\ resolve'.res.err \in {"", "nil"}
           /\ resolve'.pc = "done" =>
                /\ scanned.err = "nil"
                /\ resolve'.healthy
                /\ resolve'.res = Found(scanned.creds)
           /\ (scanned.err # "nil" \/ ~resolve'.healthy) =>
                /\ resolve'.pc = "wait"
                /\ resolve'.res = Pending]_vars

\* the loop went round and returned credentials
C23_Witness ==
  /\ resolve.pc = "done"
  /\ resolve.polls = 1
  /\ resolve.healthy
  /\ resolve.res = Found(Credentials(11, <<"a">>, Https))

\* a success status of HTTP
SuccessStatus == 200..299

\* C25: when the health check has run and said yes, the endpoint had answered
\* and its status was a success status; a request that could not be built, a
\* transport error and every other status give no.
C25_HealthyOnlyOnSuccess ==
  (resolve.probe # NoProbe /\ resolve.healthy)
    => (resolve.probe.err = "nil" /\ resolve.probe.status \in SuccessStatus)

\* the health check has said yes
C25_Witness ==
  /\ resolve.probe = Probe("nil", StatusOK)
  /\ resolve.healthy

\* C26: a Request call comes to the same with tracing as without: the same
\* error, the same body received by the service, the same bytes and the same
\* end of the response stream for the caller; and when the call succeeds the
\* service has received the whole body that was passed.
C26_TracingTransparent ==
  gateway.called =>
    /\ gateway.out = DoRequest(FALSE, gateway.args.body, gateway.args.kind,
                               gateway.args.outcome, gateway.args.response,
                               gateway.args.cut)
    /\ gateway.out.err = "nil" => gateway.out.received = gateway.args.body.data

\* without tracing the body goes out whole and the response comes back as the
\* stream gave it
RequestWithoutTracing ==
  (gateway.called /\ ~gateway.debug /\ gateway.out.err = "nil") =>
    /\ gateway.out.received = gateway.args.body.data
    /\ gateway.out.read.data = SubSeq(gateway.args.response, 1, gateway.args.cut)
    /\ gateway.out.read.err = (gateway.args.cut < Len(gateway.args.response))

\* a frame whose opcode is not 8: no element at all, a first element that is
\* no number, or a number other than 8
NotAnEvent(m) == ~(m.n > 0 /\ m.opNum /\ m.op = 8)

\* C27: when a listener reads a frame whose opcode is not 8, no user handler
\* is invoked and none is started, whatever is registered, and the listener
\* goes back to wait for the next frame, the process up.
C27_OtherOpcodesIgnored ==
  [][\A i \in DOMAIN listeners, m \in Frames :
       (NotAnEvent(m) /\ ListenerRead(i, m))
         => /\ listeners'[i].pc = "select"
            /\ goroutines' = goroutines
            /\ invoked' = invoked
            /\ crashed' = crashed]_vars

\* with handlers registered under the event bus and under "/" before the
\* connection came up, the one frame read was ignored and nothing was started
C27_Witness ==
  /\ last.op = "Connect"
  /\ handlers[CatchAll] # <<>> /\ handlers[RootTopic] # <<>>
  /\ nFrames = 1
  /\ \E i \in DOMAIN listeners :
       listeners[i].pc = "select" /\ listeners[i].why = "ignored"
  /\ goroutines = EmptyBag /\ invoked = EmptyBag

\* a wrapper made by SubscribeToAll: registered for "/" with all three types
ForAll(w) == w.topic = RootTopic /\ Range(w.types) = Range(AllTypes)

\* an invocation that SubscribeToAll still owes: a started goroutine of such a
\* wrapper for a decoded event
Owed(g) == ForAll(g.w) /\ g.ev.Message = NoFrame

\* the dispatch half of C28: a well-formed bus frame of type Create, Update or
\* Delete takes every wrapper registered by SubscribeToAll at that moment,
\* whatever its uri, and a goroutine with the decoded event is started for each
SubscribeToAllDispatch ==
  \A i \in DOMAIN listeners :
    LET m == listeners[i].msg
        e == [EventType |-> m.eventType, URI |-> m.uri, Data |-> m.data,
              Message |-> NoFrame]
    IN  /\ (/\ listeners[i].pc = "event" /\ listeners'[i] # listeners[i]
            /\ ~Malformed(m) /\ m.chan = CatchAll)
             => /\ listeners'[i].pc = "spawn"
                /\ \A w \in Range(handlers[RootTopic]) : w \in Range(listeners'[i].snap)
        /\ (/\ listeners[i].pc = "spawn" /\ listeners'[i].pc # "spawn"
            /\ m.chan = CatchAll /\ m.eventType \in Range(AllTypes))
             => \A w \in Range(listeners[i].snap) :
                  ForAll(w) => Started([w |-> w, ev |-> e]) > 0

\* C28: a handler registered by SubscribeToAll is started for every
\* well-formed bus event of type Create, Update or Delete, whatever its uri,
\* and the invocation so started is made: the process never stops while one
\* is still owed.
C28_SubscribeToAllSeesEveryEvent ==
  [][/\ SubscribeToAllDispatch
     /\ crashed' => \A g \in BagToSet(goroutines') : ~Owed(g)]_vars

\* the dispatch half by itself
SubscribeToAllStartsHandlers == [][SubscribeToAllDispatch]_vars

\* the number of wrappers in hs that let the event through
FiringCount(hs, event) ==
  Cardinality({ k \in 1..Len(hs) : event.EventType \in Range(hs[k].types) })

\* C29: nothing is suppressed. Every dispatch of a frame starts one goroutine
\* for each matching wrapper it took, whether or not the same event was
\* dispatched before, and every goroutine that runs adds one call of its
\* handler; so k identical frames make k calls.
C29_NoDeduplication ==
  [][/\ \A i \in DOMAIN listeners :
          (listeners[i].pc = "spawn" /\ listeners'[i].pc # "spawn")
            => BagCardinality(goroutines')
                 = BagCardinality(goroutines)
                     + FiringCount(listeners[i].snap, listeners[i].ev)
     /\ \A g \in BagToSet(goroutines) :
          Runs(g) => /\ BagCardinality(goroutines') = BagCardinality(goroutines) - 1
                     /\ CopiesIn([h |-> g.w.h, ev |-> g.ev], invoked')
                          = CopiesIn([h |-> g.w.h, ev |-> g.ev], invoked) + 1]_vars

\* two identical frames were read, and the one handler registered, once, was
\* called twice with the same event
C29_Witness ==
  /\ nFrames = 2
  /\ nSub = 1 /\ handlers["/a"] # <<>>
  /\ \E c \in BagToSet(invoked) :
       /\ c.ev.Message = NoFrame
       /\ CopiesIn(c, invoked) = 2
  /\ goroutines = EmptyBag

\* C30: the credentials the client holds are the ones NewClient stored, with
\* the port, password and protocol that the discovery returned: no Connect,
\* Disconnect, Request, Subscribe, Unsubscribe or listener step changes them.
C30_CredentialsImmutable ==
  [][/\ credentials' = credentials
     /\ resolve'.res = resolve.res]_vars

\* every kind of call and the listener have acted, a request went out, and
\* the credentials are those of the construction
C30_Witness ==
  /\ nSub > 0 /\ nUnsub > 0 /\ nConn = MaxConnects /\ done /\ nFrames > 0
  /\ gateway.called /\ gateway.out.sent
  /\ credentials = 1
  /\ resolve.res = Found(Credentials(1, <<"a">>, Https))

\* C33: Subscribe registers before it sends. When the event types are accepted
\* and a send fails, the call returns the error with fewer than two messages
\* written, and the wrapper has been added once more under the topic and under
\* "OnJsonApiEvent" all the same, so that each failed attempt leaves one more
\* registration; without a connection the error is "not established" and
\* nothing is written.
C33_RegisteredThoughSendFailed ==
  [][(/\ SubscribeCalled
      /\ last'.types # <<>>
      /\ \A i \in 1..Len(last'.types) : last'.types[i] \in {"Create", "Update", "Delete"})
       => LET w == [h |-> last'.h, types |-> last'.types, topic |-> last'.topic]
              t == last'.topic
              n == IF t = "OnJsonApiEvent" THEN 2 ELSE 1
          IN  /\ wsConn = 0 => (last'.err = "not established" /\ last'.sent = <<>>)
              /\ last'.err # "nil"
                   => /\ Len(last'.sent) < 2
                      /\ \A k \in {t, "OnJsonApiEvent"} :
                           Count(handlers'[k], w) = Count(handlers[k], w) + n]_vars

\* the same Subscribe failed twice on a client that is not connected, and its
\* wrapper is there twice under both keys
C33_Witness ==
  /\ nSub = 2 /\ nConn = 0
  /\ last.op = "Subscribe" /\ last.err = "not established"
  /\ last.topic = "/a"
  /\ LET w == [h |-> last.h, types |-> last.types, topic |-> last.topic]
     IN  handlers["/a"] = <<w, w>> /\ handlers[CatchAll] = <<w, w>>

\* C34: Unsubscribe(topic) leaves no handler under topic, however many
\* Subscribe calls had put one there, and does so whether or not its message
\* can be sent: without a connection it returns an error, writes nothing, and
\* the entry is gone.
C34_UnsubscribeRemovesAll ==
  [][UnsubscribeCalled
       => /\ Len(handlers'[last'.topic]) = 0
          /\ wsConn = 0 => (last'.err # "nil" /\ last'.sent = <<>>)
          /\ last'.err = "nil" <=> last'.sent # <<>>]_vars

\* two Subscribe calls for "/a", then an Unsubscribe("/a") that failed: both
\* wrappers are gone from "/a" and still under "OnJsonApiEvent"
C34_Witness ==
  /\ last.op = "Unsubscribe" /\ last.err # "nil" /\ last.topic = "/a"
  /\ handlers["/a"] = <<>>
  /\ Len(handlers[CatchAll]) = 2
  /\ \A i \in 1..2 : handlers[CatchAll][i].topic = "/a"
  /\ handlers[CatchAll][1] # handlers[CatchAll][2]

\* the candidates of the lockfile scan, in the order of the list
Candidates == SubSeq(StrategyOrder, 1, Len(StrategyOrder) - 1)

\* the three ways a candidate is passed over
Missing(p) == ~files[p].exists
WrongFieldCount(p) == files[p].exists /\ Cardinality(ColonsAt(files[p].data)) # 4
NonNumericPort(p) ==
  /\ files[p].exists
  /\ Cardinality(ColonsAt(files[p].data)) = 4
  /\ ~IsInteger(FieldOf(files[p].data, 3))
Skipped(p) == Missing(p) \/ WrongFieldCount(p) \/ NonNumericPort(p)

\* the candidates the scan has looked at so far
Scanned == SelectSeq(resolve.tried, LAMBDA p : p # "process")

\* C32: the lockfile scan looks at the candidates in order and goes past every
\* one that is missing, has a field count other than five or has a port that is
\* no number; it stops at the first candidate that is none of these and
\* returns its credentials, and it ends in failure (and the process method is
\* tried) only when it has looked at every candidate and passed over each.
C32_BadCandidatesSkipped ==
  goos \in {"windows", "darwin", "linux"} =>
    /\ IsPrefix(Scanned, Candidates)
    /\ \A k \in 1..Len(Scanned) :
         Skipped(Scanned[k])
           => \/ k < Len(Scanned)
              \/ resolve.pc = "lockfile" /\ resolve.i = k + 1
              \/ resolve.pc # "lockfile" /\ k = Len(Candidates)
    /\ \A k \in 1..Len(Scanned) :
         ~Skipped(Scanned[k])
           => /\ k = Len(Scanned)
              /\ resolve.pc = "done" /\ resolve.polls = 0
              /\ resolve.res = Found(Credentials(
                                  IntegerValue(FieldOf(files[Scanned[k]].data, 3)),
                                  FieldOf(files[Scanned[k]].data, 4),
                                  FieldOf(files[Scanned[k]].data, 5)))
    /\ (resolve.pc # "lockfile" /\ \A k \in 1..Len(Scanned) : Skipped(Scanned[k]))
         => Scanned = Candidates

\* the scan went past a missing file, a file of four fields and a file whose
\* port is no number, and returned the credentials of the fourth candidate
C32_Witness ==
  /\ resolve.pc = "done" /\ resolve.res.err = "nil"
  /\ Len(Scanned) = 4 /\ Len(resolve.tried) = 4
  /\ Missing(Scanned[1])
  /\ WrongFieldCount(Scanned[2])
  /\ NonNumericPort(Scanned[3])
  /\ resolve.res.creds.port = 11

\* an opcode-8 frame that passes the three checks of handleEvent and whose
\* body has no string eventType or no string uri
DecodingFails(m) ==
  /\ m.n >= 3 /\ m.opNum /\ m.op = 8
  /\ m.chanStr /\ m.bodyObj
  /\ ~m.hasType \/ ~m.hasUri

\* C38: the listener that holds a frame whose decoding fails ends there, by
\* the panic its deferred recover catches: the process stays up, neither the
\* raw dispatch of the frame nor the failed decoding starts or calls a
\* handler, and the listener, once ended so, does nothing more: it reads no
\* later frame.
C38_DecodingFailureEndsListener ==
  [][\A i \in DOMAIN listeners :
       /\ (/\ listeners[i].pc = "read"
           /\ listeners'[i].pc = "event"
           /\ DecodingFails(listeners'[i].msg))
            => (goroutines' = goroutines /\ invoked' = invoked)
       /\ (/\ listeners[i].pc = "event"
           /\ DecodingFails(listeners[i].msg)
           /\ listeners'[i] # listeners[i])
            => /\ listeners'[i].pc = "exited"
               /\ listeners'[i].why = "panic"
               /\ ~crashed'
               /\ goroutines' = goroutines
               /\ invoked' = invoked
       /\ (listeners[i].pc = "exited" /\ listeners[i].why = "panic")
            => /\ listeners'[i] = listeners[i]
               /\ nFrames' = nFrames \/ Len(listeners) > 1]_vars

\* with a handler subscribed for "/a" and one for every event, the second
\* frame could not be decoded: the listener is ended, the process is up, and
\* the only handler calls are those of the first frame
C38_Witness ==
  /\ ~crashed
  /\ Len(listeners) = 1
  /\ listeners[1].pc = "exited" /\ listeners[1].why = "panic"
  /\ nFrames = 2
  /\ handlers["/a"] # <<>> /\ handlers[RootTopic] # <<>>
  /\ goroutines = EmptyBag
  /\ BagCardinality(invoked) = 2

\* the wrapper of a Subscribe for an ordinary topic that is registered once:
\* one entry under its topic (none once the topic is unsubscribed) and one
\* under "OnJsonApiEvent"
RegisteredOnce(w) ==
  /\ w.topic \notin {"/", "OnJsonApiEvent"}
  /\ Count(handlers[w.topic], w) <= 1
  /\ Count(handlers["OnJsonApiEvent"], w) = 1

\* C39: one frame calls the handler of a registration for an ordinary topic at
\* most once. The raw dispatch of the frame starts no call of a user's
\* handler; the handlers resolved for the decoded event hold the wrapper of a
\* single registration at most once, although it is under two keys; the
\* dispatch starts one goroutine per resolved entry, and a goroutine that runs
\* makes one call.
C39_AtMostOncePerFrame ==
  [][/\ \A i \in DOMAIN listeners :
          /\ (listeners[i].pc = "read" /\ nFrames' = nFrames + 1)
               => \A g \in BagToSet(goroutines') : Started(g) = 0
          /\ (listeners[i].pc = "event" /\ listeners'[i].pc = "spawn")
               => \A w \in Range(handlers["OnJsonApiEvent"]) :
                    RegisteredOnce(w) => Count(listeners'[i].snap, w) <= 1
          /\ (listeners[i].pc = "spawn" /\ listeners'[i].pc # "spawn")
               => \A g \in BagToSet(goroutines') :
                    /\ Started(g) > 0 => g.ev = listeners[i].ev
                    /\ Started(g) <= Count(listeners[i].snap, g.w)
     /\ \A g \in BagToSet(goroutines) :
          Started(g) < 0
            => /\ Started(g) = 0 - 1
               /\ BagCardinality(invoked') = BagCardinality(invoked) + 1]_vars

\* one Subscribe for "/a", one bus frame for "/a" dispatched to the end: the
\* wrapper is under both keys and the handler was called once
C39_Witness ==
  /\ nSub = 1 /\ nUnsub = 0 /\ nFrames = 1
  /\ Len(handlers["/a"]) = 1 /\ handlers[CatchAll] = handlers["/a"]
  /\ Len(listeners) = 1 /\ listeners[1].pc = "select"
  /\ goroutines = EmptyBag
  /\ BagCardinality(invoked) = 1
  /\ \E c \in BagToSet(invoked) :
       c.ev.URI = "/a" /\ c.ev.Message = NoFrame /\ c.h = handlers["/a"][1].h

\* the subscription key through which handleEvent resolves the frame m: the
\* event's uri on the event bus, the channel otherwise
KeyOf(m) == IF m.chan = "OnJsonApiEvent" THEN m.uri ELSE m.chan

C37_ReconnectedSessionIsDeaf ==
  [][/\ done => done'
     /\ (ConnectCalled /\ done /\ last'.err = "nil") => wsConn' > wsConn
     /\ \A i \in DOMAIN listeners :
          (listeners[i].pc = "select" /\ done)
            => listeners'[i].pc \in {"select", "exited"}
     /\ (done /\ wsConn # 0)
          => /\ nFrames' = nFrames
             /\ \A i \in DOMAIN listeners :
                  listeners[i].pc = "read" => listeners'[i].pc # "event"]_vars

\* what does hold: the signal stays raised, the reconnecting Connect stores a
\* handle and starts a listener at its select, and a listener that is at its
\* select with the signal raised ends there, so the listener of the new
\* session reads nothing
ListenerOfNewSessionStops ==
  [][/\ done => done'
     /\ (ConnectCalled /\ done /\ last'.err = "nil")
          => /\ wsConn' > wsConn
             /\ Len(listeners') = Len(listeners) + 1
             /\ listeners'[Len(listeners')].pc = "select"
     /\ \A i \in DOMAIN listeners :
          (listeners[i].pc = "select" /\ done)
            => /\ listeners'[i].pc \in {"select", "exited"}
               /\ listeners'[i] # listeners[i]
                    => (nFrames' = nFrames /\ goroutines' = goroutines)]_vars

\* the calls that are about to enter sendWebSocketMessage
Sending == { t \in DOMAIN calls : calls[t].pc = "send" }

\* C31: a send that is inside WriteJSON writes to the socket the handle names,
\* which stays open and in place until the write is over; the handle is
\* cleared, and the socket closed, only while no send is writing; what a send
\* writes goes to the handle it found; and a send that starts while the handle
\* is cleared returns "not established" and writes nothing.
C31_SendsAndDisconnect ==
  [][/\ \A t \in Writing :
          /\ wsConn # 0 /\ wsConn' = wsConn
          /\ Len(calls'[t].sent) > Len(calls[t].sent)
               => calls'[t].sent[Len(calls'[t].sent)].conn = wsConn
     /\ (wsConn # 0 /\ wsConn' = 0) => (Writing = {} /\ wsLock = {})
     /\ \A t \in Sending :
          /\ calls'[t].pc = "write" => wsConn # 0
          /\ (wsConn = 0 /\ calls'[t] # calls[t])
               => /\ calls'[t].pc = "returned"
                  /\ calls'[t].err = "not established"
                  /\ calls'[t].sent = calls[t].sent
     /\ \A t \in DOMAIN calls \ Writing : calls'[t].sent = calls[t].sent]_vars

\* a Disconnect has entered Lock and waits while a send is inside WriteJSON
C31_Witness ==
  /\ wsConn # 0 /\ done
  /\ \E t \in Writing, u \in DOMAIN calls :
       /\ t \in wsLock
       /\ calls[u].op = "Disconnect" /\ calls[u].pc = "wswait"
  /\ \E v \in DOMAIN calls :
       calls[v].pc = "returned" /\ calls[v].err = "not established"

\* a step of one of the calls under way
SomeCallStep == \E t \in DOMAIN calls : CallStep(t)

\* C35: the two locks are nested in one order only, and nothing is stuck on
\* them. A call inside the connection lock is in its write; it holds the
\* registry lock as well exactly when it is a Subscribe, which took that one
\* first, and no call asks for the registry lock while inside the connection
\* lock; Disconnect never has the registry lock. While a call is under way
\* some call can take a step, whatever the listener and the handlers do; and
\* the listener starts the handlers of a resolved event without needing a
\* lock, so a call made from a handler waits for other calls only.
C35_NoLockDeadlock ==
  /\ \A t \in wsLock :
       /\ calls[t].pc = "write"
       /\ calls[t].op = "Subscribe" <=> eventMux = t
  /\ \A t \in DOMAIN calls :
       /\ calls[t].pc = "lock" => (t \notin wsLock /\ eventMux # t)
       /\ calls[t].op = "Disconnect" => (eventMux # t /\ t \notin wsLock)
       /\ calls[t].pc = "returned" => (eventMux # t /\ t \notin wsLock)
  /\ eventMux # 0 => calls[eventMux].op = "Subscribe"
  /\ (\E t \in DOMAIN calls : calls[t].pc # "returned") => ENABLED SomeCallStep
  /\ \A i \in DOMAIN listeners :
       listeners[i].pc = "spawn" => ENABLED ListenerSpawn(i)

\* a Subscribe is inside its write with both locks, a Disconnect waits for the
\* connection lock, the listener holds a frame it cannot resolve before the
\* registry lock is free, and a handler started for an earlier frame has not
\* run yet
C35_Witness ==
  /\ \E t \in Writing, u \in DOMAIN calls :
       /\ calls[t].op = "Subscribe" /\ eventMux = t /\ t \in wsLock
       /\ calls[u].op = "Disconnect" /\ calls[u].pc = "wswait"
  /\ \E i \in DOMAIN listeners : listeners[i].pc = "event"
  /\ goroutines # EmptyBag

====
